---- MODULE Spec2Model ----
(***************************************************************************)
(* A model of the IATA DISH HOT file parser (hot_parser.py): the field     *)
(* codec, the record layout registry, the record type resolver, the record *)
(* decoder and the assembly loop of HOTParser.parse_content.               *)
(*                                                                         *)
(* Text is a sequence of one-character strings while it is being sliced    *)
(* and a TLA+ string once it is a decoded field value.  A Decimal is the   *)
(* integer number of 10^-MaxDecimals units it denotes, so that equality is *)
(* numeric equality as for Python's Decimal.  An Optional value is the     *)
(* empty sequence (None) or a one-element sequence; a datetime is the      *)
(* tuple <<year, month, day>>.                                             *)
(***************************************************************************)
EXTENDS Integers, Sequences, FiniteSets, TLC

VARIABLES
    pc,                 \* position of the run: "idle", "loop", "done", or a codec position
    call,               \* number of the parse_content call on this HOTParser instance
    line_num,           \* enumerate(lines, 1): number of the line consumed last
    last_line,          \* the line consumed by the latest step (history variable)
    hot_file,           \* the HOTFile under construction
    current_agent,      \* Optional[Agent]
    current_document,   \* Optional[TicketDocument]
    warnings,           \* self.warnings
    errors,             \* self.errors
    currency_decimals,  \* self._currency_decimals
    last_bft,           \* history: what the latest file-totals record saw and carried
    started,            \* history: the documents started, each with the agent then pending
    boundary,           \* history: number of the latest BOH, BOT or BFT line read with an agent pending
    fresh,              \* a second parser, newly constructed, fed the same lines
    input,              \* the records and the terminator the content is made of
    codec_in,           \* codec harness: the raw field value
    codec_out           \* codec harness: the decoded value

vars == <<pc, call, line_num, last_line, hot_file, current_agent, current_document,
          warnings, errors, currency_decimals, last_bft, started, boundary, fresh, input,
          codec_in, codec_out>>

parser_vars == <<call, line_num, last_line, hot_file, current_agent, current_document,
                 warnings, errors, currency_decimals, last_bft, started, boundary, fresh, input>>

codec_vars == <<codec_in, codec_out>>

-----------------------------------------------------------------------------
(* Bounds of the model *)

\* longest raw field the codec harness enumerates
MaxFieldLen == 3
\* most lines of one parse_content call
MaxLines == 4

-----------------------------------------------------------------------------
(* Characters and text *)

None == <<>>
Some(x) == <<x>>

DigitChars == <<"0", "1", "2", "3", "4", "5", "6", "7", "8", "9">>
Digits == {DigitChars[i] : i \in 1..10}
DigitVal(c) == (CHOOSE i \in 1..10 : DigitChars[i] = c) - 1

\* the whitespace str.strip() removes, as far as the inputs of the model have it
Whitespace == {" ", "\t"}

RECURSIVE Str(_)
\* the string spelled by a sequence of characters
Str(s) ==
    IF s = <<>> THEN ""
    ELSE IF Len(s) = 1 THEN s[1]
    ELSE Str(SubSeq(s, 1, Len(s) \div 2)) \o Str(SubSeq(s, (Len(s) \div 2) + 1, Len(s)))

Min(a, b) == IF a < b THEN a ELSE b
Max(a, b) == IF a > b THEN a ELSE b

\* Python's s[start:end] for 0 <= start <= end
Slice(s, start, end) == SubSeq(s, start + 1, Min(end, Len(s)))

\* Python's str.strip()
Strip(s) ==
    LET keep == {i \in 1..Len(s) : s[i] \notin Whitespace}
    IN  IF keep = {} THEN <<>>
        ELSE SubSeq(s, CHOOSE i \in keep : \A j \in keep : i <= j,
                       CHOOSE i \in keep : \A j \in keep : i >= j)

\* re.sub(r'[^0-9]', '', value)
OnlyDigits(s) == SelectSeq(s, LAMBDA c : c \in Digits)

RECURSIVE DigitsToInt(_)
\* int(value) / Decimal(value) of a string of decimal digits
DigitsToInt(s) ==
    IF s = <<>> THEN 0
    ELSE 10 * DigitsToInt(SubSeq(s, 1, Len(s) - 1)) + DigitVal(s[Len(s)])

RECURSIVE Pow10(_)
Pow10(n) == IF n = 0 THEN 1 ELSE 10 * Pow10(n - 1)

\* str.ljust(width)
Ljust(s, width) ==
    IF Len(s) >= width THEN s ELSE s \o [i \in 1..(width - Len(s)) |-> " "]

-----------------------------------------------------------------------------
(* Field codec *)

RECORD_LENGTH == 136

\* the largest currency_decimals _process_amounts accepts; Decimals are counted
\* in units of 10^-MaxDecimals
MaxDecimals == 4

\* the scale a new HOTParser starts with
DefaultDecimals == 2

OVERPUNCH_POSITIVE ==
    ("{" :> "0") @@ ("A" :> "1") @@ ("B" :> "2") @@ ("C" :> "3") @@ ("D" :> "4") @@
    ("E" :> "5") @@ ("F" :> "6") @@ ("G" :> "7") @@ ("H" :> "8") @@ ("I" :> "9")

OVERPUNCH_NEGATIVE ==
    ("}" :> "0") @@ ("J" :> "1") @@ ("K" :> "2") @@ ("L" :> "3") @@ ("M" :> "4") @@
    ("N" :> "5") @@ ("O" :> "6") @@ ("P" :> "7") @@ ("Q" :> "8") @@ ("R" :> "9")

\* Decimal(value) / (10 ** decimals), in units of 10^-MaxDecimals
DecimalOf(digits, decimals) == DigitsToInt(digits) * Pow10(MaxDecimals - decimals)

\* faulty variant: the overpunch character is dropped instead of replaced by its digit
parse_signed_numeric_drop(value, decimals) ==
    LET v == Strip(value)
    IN  IF v = <<>> THEN 0
        ELSE
        LET last_char == v[Len(v)]
            body == SubSeq(v, 1, Len(v) - 1)
            signed == last_char \in DOMAIN OVERPUNCH_POSITIVE
                          \cup DOMAIN OVERPUNCH_NEGATIVE \cup {"+", "-"}
            is_negative == last_char \in DOMAIN OVERPUNCH_NEGATIVE \/ last_char = "-"
            digits == OnlyDigits(IF signed THEN body ELSE v)
        IN  IF digits = <<>> THEN 0
            ELSE IF is_negative THEN 0 - DecimalOf(digits, decimals)
                 ELSE DecimalOf(digits, decimals)

\* faulty variant: the sign of an overpunched or explicitly signed field is ignored
parse_signed_numeric_unsigned(value, decimals) ==
    LET v == Strip(value)
    IN  IF v = <<>> THEN 0
        ELSE
        LET last_char == v[Len(v)]
            body == SubSeq(v, 1, Len(v) - 1)
            substituted ==
                IF last_char \in DOMAIN OVERPUNCH_POSITIVE
                    THEN Append(body, OVERPUNCH_POSITIVE[last_char])
                ELSE IF last_char \in DOMAIN OVERPUNCH_NEGATIVE
                    THEN Append(body, OVERPUNCH_NEGATIVE[last_char])
                ELSE IF last_char \in {"+", "-"} THEN body
                ELSE v
            digits == OnlyDigits(substituted)
        IN  IF digits = <<>> THEN 0 ELSE DecimalOf(digits, decimals)

\* HOTParser._parse_signed_numeric, at the scale self._currency_decimals = decimals
parse_signed_numeric(value, decimals) ==
    LET v == Strip(value)
    IN  IF v = <<>> THEN 0
        ELSE
        LET last_char == v[Len(v)]
            body == SubSeq(v, 1, Len(v) - 1)
            substituted ==
                IF last_char \in DOMAIN OVERPUNCH_POSITIVE
                    THEN Append(body, OVERPUNCH_POSITIVE[last_char])
                ELSE IF last_char \in DOMAIN OVERPUNCH_NEGATIVE
                    THEN Append(body, OVERPUNCH_NEGATIVE[last_char])
                ELSE IF last_char \in {"+", "-"} THEN body
                ELSE v
            is_negative == last_char \in DOMAIN OVERPUNCH_NEGATIVE \/ last_char = "-"
            digits == OnlyDigits(substituted)
        IN  IF digits = <<>> THEN 0
            ELSE IF is_negative THEN 0 - DecimalOf(digits, decimals)
                 ELSE DecimalOf(digits, decimals)

\* HOTParser._parse_numeric
parse_numeric(value) ==
    LET clean_value == OnlyDigits(Strip(value))
    IN  IF clean_value = <<>> THEN 0 ELSE DigitsToInt(clean_value)

\* calendar: days of a month of the proleptic Gregorian calendar
IsLeap(y) == (y % 4 = 0 /\ y % 100 # 0) \/ y % 400 = 0
DaysInMonth(y, m) ==
    IF m = 2 THEN (IF IsLeap(y) THEN 29 ELSE 28)
    ELSE IF m \in {4, 6, 9, 11} THEN 30 ELSE 31

\* faulty variant: the century changes at 50
StrptimeYear_50(yy) == IF yy < 50 THEN 2000 + yy ELSE 1900 + yy

\* the century strptime's %y gives a two-digit year
StrptimeYear(yy) == IF yy < 69 THEN 2000 + yy ELSE 1900 + yy

\* datetime.strptime of six digits as two-digit day, month and year fields
Strptime(dd, mm, yy) ==
    IF /\ 1 <= dd /\ dd <= 31 /\ 1 <= mm /\ mm <= 12
       /\ dd <= DaysInMonth(StrptimeYear(yy), mm)
    THEN Some(<<StrptimeYear(yy), mm, dd>>)
    ELSE None

\* HOTParser._parse_date_ddmmyy of a decoded numeric field: str(value).zfill(6)
parse_date_ddmmyy(value) ==
    IF value >= 1000000 \/ value = 0 THEN None
    ELSE
    LET a == value \div 10000
        b == (value \div 100) % 100
        c == value % 100
    IN  IF Strptime(a, b, c) # None THEN Strptime(a, b, c)
        ELSE Strptime(c, b, a)

-----------------------------------------------------------------------------
(* Codec harness: a raw field value and a scale are drawn, one decoder is applied *)

CodecAlphabet == {"0", "1", "5", "{", "}", "C", "R", "+", "-", " ", "X"}

ExampleI == <<"0", "0", "0", "0", "0", "1", "2", "3", "4", "5", "I">>
ExampleR == <<"0", "0", "0", "0", "0", "1", "2", "3", "4", "5", "R">>

FieldInputs ==
    UNION {[1..n -> CodecAlphabet] : n \in 0..MaxFieldLen} \cup {ExampleI, ExampleR}

\* the scales self._currency_decimals can hold (hot_parser.py line 717)
Scales == 0..MaxDecimals

DecodeSigned ==
    /\ pc = "codec_input"
    /\ pc' = "codec_signed"
    /\ codec_out' = parse_signed_numeric(codec_in.value, codec_in.decimals)
    /\ UNCHANGED <<codec_in, parser_vars>>

DecodeNumeric ==
    /\ pc = "codec_input"
    /\ pc' = "codec_numeric"
    /\ codec_out' = parse_numeric(codec_in.value)
    /\ UNCHANGED <<codec_in, parser_vars>>

-----------------------------------------------------------------------------
(* Record layout registry *)

\* faulty variant: the length counts one character more than the field has
RecordSpec_wide(name, start, length, data_type) ==
    [name |-> name, start |-> start, length |-> length + 1, data_type |-> data_type]

RecordSpec(name, start, length, data_type) ==
    [name |-> name, start |-> start, length |-> length, data_type |-> data_type]

RECORD_SPECS ==
    ("BFH01" :> <<
        RecordSpec("record_id", 1, 5, "A"),
        RecordSpec("sequence_number", 6, 6, "N"),
        RecordSpec("bsp_code", 12, 2, "A"),
        RecordSpec("file_date", 14, 6, "N"),
        RecordSpec("billing_period", 20, 6, "N"),
        RecordSpec("process_date", 26, 6, "N"),
        RecordSpec("dish_version", 32, 5, "AN"),
        RecordSpec("file_type", 37, 4, "A"),
        RecordSpec("airline_code", 41, 3, "AN"),
        RecordSpec("filler", 44, 93, "A")
    >>) @@
    ("BCH02" :> <<
        RecordSpec("record_id", 1, 5, "A"),
        RecordSpec("sequence_number", 6, 6, "N"),
        RecordSpec("airline_code", 12, 3, "AN"),
        RecordSpec("billing_period", 15, 6, "N"),
        RecordSpec("bsp_code", 21, 2, "A"),
        RecordSpec("currency", 23, 3, "A"),
        RecordSpec("billing_type", 26, 2, "AN"),
        RecordSpec("remittance_period", 28, 3, "N"),
        RecordSpec("filler", 31, 106, "A")
    >>) @@
    ("BOH03" :> <<
        RecordSpec("record_id", 1, 5, "A"),
        RecordSpec("sequence_number", 6, 6, "N"),
        RecordSpec("agent_iata_number", 12, 8, "AN"),
        RecordSpec("agent_check_digit", 20, 1, "N"),
        RecordSpec("agent_name", 21, 52, "A"),
        RecordSpec("agent_city", 73, 3, "A"),
        RecordSpec("filler", 76, 61, "A")
    >>) @@
    ("BKT06" :> <<
        RecordSpec("record_id", 1, 5, "A"),
        RecordSpec("sequence_number", 6, 6, "N"),
        RecordSpec("transaction_code", 12, 4, "A"),
        RecordSpec("airline_code", 16, 3, "AN"),
        RecordSpec("document_count", 19, 6, "N"),
        RecordSpec("filler", 25, 112, "A")
    >>) @@
    ("BKS24" :> <<
        RecordSpec("record_id", 1, 5, "A"),
        RecordSpec("sequence_number", 6, 6, "N"),
        RecordSpec("document_number", 12, 14, "AN"),
        RecordSpec("transaction_code", 26, 4, "A"),
        RecordSpec("form_code", 30, 4, "A"),
        RecordSpec("issue_date", 34, 6, "N"),
        RecordSpec("original_issue_date", 40, 6, "N"),
        RecordSpec("issue_time", 46, 6, "N"),
        RecordSpec("dom_int_indicator", 52, 1, "A"),
        RecordSpec("tour_code", 53, 15, "AN"),
        RecordSpec("related_doc_number", 68, 14, "AN"),
        RecordSpec("filler", 82, 55, "A")
    >>) @@
    ("BKS30" :> <<
        RecordSpec("record_id", 1, 5, "A"),
        RecordSpec("sequence_number", 6, 6, "N"),
        RecordSpec("stat_code", 12, 1, "A"),
        RecordSpec("currency", 13, 3, "A"),
        RecordSpec("currency_decimals", 16, 1, "N"),
        RecordSpec("fare_amount", 17, 12, "S"),
        RecordSpec("equivalent_fare", 29, 12, "S"),
        RecordSpec("total_tax", 41, 12, "S"),
        RecordSpec("penalty", 53, 12, "S"),
        RecordSpec("total_amount", 65, 12, "S"),
        RecordSpec("filler", 77, 60, "A")
    >>) @@
    ("BKS31" :> <<
        RecordSpec("record_id", 1, 5, "A"),
        RecordSpec("sequence_number", 6, 6, "N"),
        RecordSpec("tax_country", 12, 2, "A"),
        RecordSpec("tax_code_1", 14, 2, "A"),
        RecordSpec("tax_amount_1", 16, 12, "S"),
        RecordSpec("tax_code_2", 28, 2, "A"),
        RecordSpec("tax_amount_2", 30, 12, "S"),
        RecordSpec("tax_code_3", 42, 2, "A"),
        RecordSpec("tax_amount_3", 44, 12, "S"),
        RecordSpec("tax_code_4", 56, 2, "A"),
        RecordSpec("tax_amount_4", 58, 12, "S"),
        RecordSpec("filler", 70, 67, "A")
    >>) @@
    ("BKS39" :> <<
        RecordSpec("record_id", 1, 5, "A"),
        RecordSpec("sequence_number", 6, 6, "N"),
        RecordSpec("comm_type", 12, 1, "A"),
        RecordSpec("comm_rate", 13, 5, "N"),
        RecordSpec("comm_amount", 18, 12, "S"),
        RecordSpec("vat_on_comm", 30, 12, "S"),
        RecordSpec("net_remit", 42, 12, "S"),
        RecordSpec("filler", 54, 83, "A")
    >>) @@
    ("BKI63" :> <<
        RecordSpec("record_id", 1, 5, "A"),
        RecordSpec("sequence_number", 6, 6, "N"),
        RecordSpec("coupon_number", 12, 2, "N"),
        RecordSpec("origin", 14, 3, "A"),
        RecordSpec("destination", 17, 3, "A"),
        RecordSpec("stopover_code", 20, 1, "A"),
        RecordSpec("carrier", 21, 3, "AN"),
        RecordSpec("flight_number", 24, 5, "AN"),
        RecordSpec("class_of_service", 29, 2, "A"),
        RecordSpec("flight_date", 31, 6, "N"),
        RecordSpec("departure_time", 37, 4, "N"),
        RecordSpec("arrival_time", 41, 4, "N"),
        RecordSpec("fare_basis", 45, 15, "AN"),
        RecordSpec("nvb", 60, 6, "N"),
        RecordSpec("nva", 66, 6, "N"),
        RecordSpec("baggage", 72, 3, "AN"),
        RecordSpec("coupon_value", 75, 12, "S"),
        RecordSpec("filler", 87, 50, "A")
    >>) @@
    ("BAR64" :> <<
        RecordSpec("record_id", 1, 5, "A"),
        RecordSpec("sequence_number", 6, 6, "N"),
        RecordSpec("passenger_name", 12, 49, "A"),
        RecordSpec("passenger_type", 61, 3, "A"),
        RecordSpec("filler", 64, 73, "A")
    >>) @@
    ("BKP84" :> <<
        RecordSpec("record_id", 1, 5, "A"),
        RecordSpec("sequence_number", 6, 6, "N"),
        RecordSpec("fop_sequence", 12, 2, "N"),
        RecordSpec("fop_type", 14, 2, "A"),
        RecordSpec("cc_code", 16, 2, "A"),
        RecordSpec("fop_amount", 18, 12, "S"),
        RecordSpec("card_number", 30, 20, "AN"),
        RecordSpec("expiry", 50, 4, "N"),
        RecordSpec("approval_code", 54, 8, "AN"),
        RecordSpec("filler", 62, 75, "A")
    >>) @@
    ("BOT93" :> <<
        RecordSpec("record_id", 1, 5, "A"),
        RecordSpec("sequence_number", 6, 6, "N"),
        RecordSpec("transaction_code", 12, 4, "A"),
        RecordSpec("currency", 16, 3, "A"),
        RecordSpec("document_count", 19, 6, "N"),
        RecordSpec("fare_total", 25, 14, "S"),
        RecordSpec("tax_total", 39, 14, "S"),
        RecordSpec("penalty_total", 53, 14, "S"),
        RecordSpec("comm_total", 67, 14, "S"),
        RecordSpec("net_remit_total", 81, 14, "S"),
        RecordSpec("total_amount", 95, 14, "S"),
        RecordSpec("filler", 109, 28, "A")
    >>) @@
    ("BOT94" :> <<
        RecordSpec("record_id", 1, 5, "A"),
        RecordSpec("sequence_number", 6, 6, "N"),
        RecordSpec("currency", 12, 3, "A"),
        RecordSpec("document_count", 15, 6, "N"),
        RecordSpec("fare_total", 21, 14, "S"),
        RecordSpec("tax_total", 35, 14, "S"),
        RecordSpec("penalty_total", 49, 14, "S"),
        RecordSpec("comm_total", 63, 14, "S"),
        RecordSpec("net_remit_total", 77, 14, "S"),
        RecordSpec("total_amount", 91, 14, "S"),
        RecordSpec("filler", 105, 32, "A")
    >>) @@
    ("BCT95" :> <<
        RecordSpec("record_id", 1, 5, "A"),
        RecordSpec("sequence_number", 6, 6, "N"),
        RecordSpec("currency", 12, 3, "A"),
        RecordSpec("document_count", 15, 6, "N"),
        RecordSpec("fare_total", 21, 14, "S"),
        RecordSpec("tax_total", 35, 14, "S"),
        RecordSpec("penalty_total", 49, 14, "S"),
        RecordSpec("comm_total", 63, 14, "S"),
        RecordSpec("net_remit_total", 77, 14, "S"),
        RecordSpec("total_amount", 91, 14, "S"),
        RecordSpec("filler", 105, 32, "A")
    >>) @@
    ("BFT99" :> <<
        RecordSpec("record_id", 1, 5, "A"),
        RecordSpec("sequence_number", 6, 6, "N"),
        RecordSpec("currency", 12, 3, "A"),
        RecordSpec("document_count", 15, 6, "N"),
        RecordSpec("fare_total", 21, 14, "S"),
        RecordSpec("tax_total", 35, 14, "S"),
        RecordSpec("penalty_total", 49, 14, "S"),
        RecordSpec("comm_total", 63, 14, "S"),
        RecordSpec("net_remit_total", 77, 14, "S"),
        RecordSpec("total_amount", 91, 14, "S"),
        RecordSpec("filler", 105, 32, "A")
    >>)

-----------------------------------------------------------------------------
(* Record type resolver *)

RECORD_PREFIX_MAP ==
    ("BFH" :> "BFH01") @@ ("BCH" :> "BCH02") @@ ("BOH" :> "BOH03") @@
    ("BKT" :> "BKT06") @@ ("BKS24" :> "BKS24") @@ ("BKS30" :> "BKS30") @@
    ("BKS31" :> "BKS31") @@ ("BKS39" :> "BKS39") @@ ("BKI" :> "BKI63") @@
    ("BAR64" :> "BAR64") @@ ("BAR66" :> "BAR66") @@ ("BAR" :> "BAR64") @@
    ("BKP" :> "BKP84") @@ ("BKF" :> "BKS30") @@ ("BOT93" :> "BOT93") @@
    ("BOT94" :> "BOT94") @@ ("BOT" :> "BOT94") @@ ("BCT" :> "BCT95") @@
    ("BFT" :> "BFT99")

\* record_id[:3] as a string
Prefix3(record_id) == Str(Slice(record_id, 0, 3))

\* HOTParser._get_spec_key: None or the key of a layout
get_spec_key(record_id) ==
    IF Str(record_id) \in DOMAIN RECORD_SPECS THEN Some(Str(record_id))
    ELSE IF Str(record_id) \in DOMAIN RECORD_PREFIX_MAP
        THEN Some(RECORD_PREFIX_MAP[Str(record_id)])
    ELSE IF Prefix3(record_id) \in DOMAIN RECORD_PREFIX_MAP
        THEN Some(RECORD_PREFIX_MAP[Prefix3(record_id)])
    ELSE IF Prefix3(record_id) = "BKS" THEN Some("BKS24")
    ELSE None

-----------------------------------------------------------------------------
(* Record decoder *)

\* faulty variant: the 1-indexed start is used as a 0-indexed one
FieldValue_unshifted(spec, line, decimals) ==
    LET start == spec.start
        end == start + spec.length
        raw_value == IF end <= Len(line) THEN Slice(line, start, end)
                     ELSE Slice(line, start, Len(line))
    IN  IF spec.data_type = "S" THEN parse_signed_numeric(raw_value, decimals)
        ELSE IF spec.data_type = "N" THEN parse_numeric(raw_value)
        ELSE Str(Strip(raw_value))

\* the value of one field of a layout in a line, decoded by its data type
FieldValue(spec, line, decimals) ==
    LET start == spec.start - 1
        end == start + spec.length
        raw_value == IF end <= Len(line) THEN Slice(line, start, end)
                     ELSE Slice(line, start, Len(line))
    IN  IF spec.data_type = "S" THEN parse_signed_numeric(raw_value, decimals)
        ELSE IF spec.data_type = "N" THEN parse_numeric(raw_value)
        ELSE Str(Strip(raw_value))

\* HOTParser._parse_record at the scale self._currency_decimals = decimals:
\* None, or the dict of the decoded fields
parse_record(line, record_id, decimals) ==
    LET spec_key == get_spec_key(record_id)
    IN  IF spec_key = None \/ spec_key[1] \notin DOMAIN RECORD_SPECS THEN None
        ELSE
        LET layout == RECORD_SPECS[spec_key[1]]
            names == {layout[i].name : i \in 1..Len(layout)}
            \* a later field of the same name overwrites an earlier one
            at(n) == CHOOSE i \in 1..Len(layout) :
                        /\ layout[i].name = n
                        /\ \A j \in 1..Len(layout) : layout[j].name = n => j <= i
        IN  Some([n \in names \cup {"_record_id", "_spec_key", "_raw"} |->
                    IF n = "_record_id" THEN Str(record_id)
                    ELSE IF n = "_spec_key" THEN spec_key[1]
                    ELSE IF n = "_raw" THEN Str(line)
                    ELSE FieldValue(layout[at(n)], line, decimals)])

\* record.get(name, default)
Get(record, name, default) == IF name \in DOMAIN record THEN record[name] ELSE default

-----------------------------------------------------------------------------
(* Data classes.  The g_ fields are history fields of the model, not fields of   *)
(* the dataclass: g_line is the number of the line that created the object and   *)
(* g_bot the values of the office-totals record applied to an agent last.        *)

RECURSIVE IntStr(_)
\* str(n) of a natural number
IntStr(n) == IF n < 10 THEN DigitChars[n + 1] ELSE IntStr(n \div 10) \o DigitChars[(n % 10) + 1]

\* str(n).zfill(4)
Zfill4(n) ==
    IF n < 10 THEN "000" \o IntStr(n)
    ELSE IF n < 100 THEN "00" \o IntStr(n)
    ELSE IF n < 1000 THEN "0" \o IntStr(n)
    ELSE IntStr(n)

TicketDocument(g_line) ==
    [document_number |-> "", transaction_code |-> "", form_code |-> "",
     issue_date |-> None, original_issue_date |-> None, dom_int_indicator |-> "",
     passenger_name |-> "", passenger_type |-> "",
     currency |-> "", currency_decimals |-> DefaultDecimals,
     fare_amount |-> 0, equivalent_fare |-> 0, total_tax |-> 0, penalty |-> 0,
     total_amount |-> 0, commission_amount |-> 0, commission_rate |-> 0, net_remit |-> 0,
     taxes |-> <<>>, segments |-> <<>>,
     fop_type |-> "", fop_cc_code |-> "", card_number |-> "", fop_amount |-> 0,
     raw_records |-> <<>>, g_line |-> g_line]

Agent(g_line) ==
    [iata_number |-> "", name |-> "", city |-> "", documents |-> <<>>,
     total_fare |-> 0, total_tax |-> 0, total_amount |-> 0, net_remit |-> 0,
     document_count |-> 0, g_line |-> g_line, g_bot |-> None]

HOTFile ==
    [bsp_code |-> "", file_date |-> None, billing_period |-> "", dish_version |-> "",
     file_type |-> "", airline_code |-> "", currency |-> "", agents |-> <<>>,
     total_documents |-> 0, total_fare |-> 0, total_tax |-> 0, total_amount |-> 0,
     net_remit |-> 0, raw_records |-> <<>>]

\* an object without the history fields of the model
Fields(obj) == [f \in DOMAIN obj \ {"g_line", "g_bot"} |-> obj[f]]

\* the dataclass-generated Agent.__eq__: all fields, documents compared likewise
AgentEq(a, b) ==
    /\ [Fields(a) EXCEPT !.documents = <<>>] = [Fields(b) EXCEPT !.documents = <<>>]
    /\ Len(a.documents) = Len(b.documents)
    /\ \A i \in 1..Len(a.documents) : Fields(a.documents[i]) = Fields(b.documents[i])

\* current_agent in hot_file.agents
AgentIn(a, agents) == \E i \in 1..Len(agents) : AgentEq(a, agents[i])

-----------------------------------------------------------------------------
(* Record handlers *)

\* faulty variant: a file header also resets the file totals
process_file_header_reset(hf, record) ==
    [hf EXCEPT
        !.bsp_code = Get(record, "bsp_code", ""),
        !.file_date = parse_date_ddmmyy(Get(record, "file_date", 0)),
        !.billing_period = IF "billing_period" \in DOMAIN record
                            THEN IntStr(record.billing_period) ELSE "",
        !.dish_version = Get(record, "dish_version", ""),
        !.file_type = Get(record, "file_type", ""),
        !.airline_code = IF Get(record, "airline_code", "") # ""
                         THEN Get(record, "airline_code", "") ELSE @,
        !.total_documents = 0, !.total_fare = 0, !.total_tax = 0,
        !.total_amount = 0, !.net_remit = 0]

\* HOTParser._process_file_header
process_file_header(hf, record) ==
    [hf EXCEPT
        !.bsp_code = Get(record, "bsp_code", ""),
        !.file_date = parse_date_ddmmyy(Get(record, "file_date", 0)),
        !.billing_period = IF "billing_period" \in DOMAIN record
                            THEN IntStr(record.billing_period) ELSE "",
        !.dish_version = Get(record, "dish_version", ""),
        !.file_type = Get(record, "file_type", ""),
        !.airline_code = IF Get(record, "airline_code", "") # ""
                         THEN Get(record, "airline_code", "") ELSE @]

\* HOTParser._process_billing_header
process_billing_header(hf, record) ==
    [hf EXCEPT
        !.airline_code = Get(record, "airline_code", ""),
        !.currency = Get(record, "currency", ""),
        !.bsp_code = IF @ = "" THEN Get(record, "bsp_code", "") ELSE @]

\* HOTParser._process_office_header
process_office_header(agent, record) ==
    [agent EXCEPT
        !.iata_number = Get(record, "agent_iata_number", ""),
        !.name = Get(record, "agent_name", ""),
        !.city = Get(record, "agent_city", "")]

\* HOTParser._process_document_id
process_document_id(doc, record) ==
    [doc EXCEPT
        !.document_number = Get(record, "document_number", ""),
        !.transaction_code = Get(record, "transaction_code", ""),
        !.form_code = Get(record, "form_code", ""),
        !.issue_date = parse_date_ddmmyy(Get(record, "issue_date", 0)),
        !.original_issue_date = parse_date_ddmmyy(Get(record, "original_issue_date", 0)),
        !.dom_int_indicator = Get(record, "dom_int_indicator", ""),
        !.raw_records = Append(@, record)]

\* faulty variant: the fare amount is taken from the equivalent-fare field
process_amounts_equivalent(doc, record, self_decimals) ==
    LET decimals == Get(record, "currency_decimals", DefaultDecimals)
        accepted == 0 <= decimals /\ decimals <= MaxDecimals
    IN  [doc |-> [doc EXCEPT
                    !.currency = Get(record, "currency", ""),
                    !.currency_decimals = IF accepted THEN decimals ELSE @,
                    !.fare_amount = Get(record, "equivalent_fare", 0),
                    !.equivalent_fare = Get(record, "equivalent_fare", 0),
                    !.total_tax = Get(record, "total_tax", 0),
                    !.penalty = Get(record, "penalty", 0),
                    !.total_amount = Get(record, "total_amount", 0),
                    !.raw_records = Append(@, record)],
         currency_decimals |-> IF accepted THEN decimals ELSE self_decimals]

\* HOTParser._process_amounts: the document and the new self._currency_decimals
process_amounts(doc, record, self_decimals) ==
    LET decimals == Get(record, "currency_decimals", DefaultDecimals)
        accepted == 0 <= decimals /\ decimals <= MaxDecimals
    IN  [doc |-> [doc EXCEPT
                    !.currency = Get(record, "currency", ""),
                    !.currency_decimals = IF accepted THEN decimals ELSE @,
                    !.fare_amount = Get(record, "fare_amount", 0),
                    !.equivalent_fare = Get(record, "equivalent_fare", 0),
                    !.total_tax = Get(record, "total_tax", 0),
                    !.penalty = Get(record, "penalty", 0),
                    !.total_amount = Get(record, "total_amount", 0),
                    !.raw_records = Append(@, record)],
         currency_decimals |-> IF accepted THEN decimals ELSE self_decimals]

RECURSIVE TaxSlots(_, _, _)
\* the loop of _process_tax over the slots i..4
TaxSlots(taxes, record, i) ==
    IF i > 4 THEN taxes
    ELSE
    LET tax_code == Get(record, "tax_code_" \o IntStr(i), "")
        tax_amount == Get(record, "tax_amount_" \o IntStr(i), 0)
    IN  IF tax_code # "" /\ tax_amount # 0
        THEN TaxSlots(Append(taxes, [country |-> Get(record, "tax_country", ""),
                                     code |-> tax_code, amount |-> tax_amount]),
                      record, i + 1)
        ELSE TaxSlots(taxes, record, i + 1)

\* faulty variant: the entries of the record are put before the existing entries
process_tax_front(doc, record) ==
    [doc EXCEPT !.taxes = TaxSlots(<<>>, record, 1) \o @, !.raw_records = Append(@, record)]

\* HOTParser._process_tax
process_tax(doc, record) ==
    [doc EXCEPT !.taxes = TaxSlots(@, record, 1), !.raw_records = Append(@, record)]

\* HOTParser._process_commission: the rate is Decimal(comm_rate) / 100
process_commission(doc, record) ==
    [doc EXCEPT
        !.commission_rate = Get(record, "comm_rate", 0) * Pow10(MaxDecimals - 2),
        !.commission_amount = Get(record, "comm_amount", 0),
        !.net_remit = Get(record, "net_remit", 0),
        !.raw_records = Append(@, record)]

\* HOTParser._process_segment
process_segment(doc, record) ==
    LET segment ==
            [coupon |-> Get(record, "coupon_number", 0),
             origin |-> Get(record, "origin", ""),
             destination |-> Get(record, "destination", ""),
             stopover |-> Get(record, "stopover_code", ""),
             carrier |-> Get(record, "carrier", ""),
             flight_number |-> Get(record, "flight_number", ""),
             class |-> Get(record, "class_of_service", ""),
             flight_date |-> parse_date_ddmmyy(Get(record, "flight_date", 0)),
             departure_time |-> Zfill4(Get(record, "departure_time", 0)),
             arrival_time |-> Zfill4(Get(record, "arrival_time", 0)),
             fare_basis |-> Get(record, "fare_basis", "")]
    IN  [doc EXCEPT !.segments = Append(@, segment), !.raw_records = Append(@, record)]

\* HOTParser._process_passenger
process_passenger(doc, record) ==
    [doc EXCEPT
        !.passenger_name = Get(record, "passenger_name", ""),
        !.passenger_type = Get(record, "passenger_type", ""),
        !.raw_records = Append(@, record)]

\* HOTParser._process_payment
process_payment(doc, record) ==
    [doc EXCEPT
        !.fop_type = Get(record, "fop_type", ""),
        !.fop_cc_code = Get(record, "cc_code", ""),
        !.card_number = Get(record, "card_number", ""),
        !.fop_amount = Get(record, "fop_amount", 0),
        !.raw_records = Append(@, record)]

\* faulty variant: the office totals are added to the agent's totals instead of replacing them
process_office_totals_add(agent, record) ==
    [agent EXCEPT
        !.document_count = @ + Get(record, "document_count", 0),
        !.total_fare = @ + Get(record, "fare_total", 0),
        !.total_tax = @ + Get(record, "tax_total", 0),
        !.total_amount = @ + Get(record, "total_amount", 0),
        !.net_remit = @ + Get(record, "net_remit_total", 0)]

\* HOTParser._process_office_totals
process_office_totals(agent, record) ==
    [agent EXCEPT
        !.document_count = Get(record, "document_count", 0),
        !.total_fare = Get(record, "fare_total", 0),
        !.total_tax = Get(record, "tax_total", 0),
        !.total_amount = Get(record, "total_amount", 0),
        !.net_remit = Get(record, "net_remit_total", 0)]

\* faulty variant: the file total amount is taken from the net remittance field
process_file_totals_swapped(hf, record) ==
    [hf EXCEPT
        !.currency = IF Get(record, "currency", "") # ""
                     THEN Get(record, "currency", "") ELSE @,
        !.total_documents = Get(record, "document_count", 0),
        !.total_fare = Get(record, "fare_total", 0),
        !.total_tax = Get(record, "tax_total", 0),
        !.total_amount = Get(record, "net_remit_total", 0),
        !.net_remit = Get(record, "net_remit_total", 0)]

\* HOTParser._process_file_totals
process_file_totals(hf, record) ==
    [hf EXCEPT
        !.currency = IF Get(record, "currency", "") # ""
                     THEN Get(record, "currency", "") ELSE @,
        !.total_documents = Get(record, "document_count", 0),
        !.total_fare = Get(record, "fare_total", 0),
        !.total_tax = Get(record, "tax_total", 0),
        !.total_amount = Get(record, "total_amount", 0),
        !.net_remit = Get(record, "net_remit_total", 0)]

\* HOTParser._is_document_record
is_document_record(parsed) ==
    \/ Get(parsed, "transaction_code", "") \in {"TKTT", "RFND", "EXCH", "CANX", "ACMA", "ADMA"}
    \/ Len(Get(parsed, "document_number", "")) >= 10

\* str.isalpha() as far as the inputs of the model have letters
Letters == {"A", "B", "C", "D", "E", "F", "G", "H", "I", "J", "K", "L", "M",
            "N", "O", "P", "Q", "R", "S", "T", "U", "V", "W", "X", "Y", "Z"}
IsAlpha(s) == s # <<>> /\ \A i \in 1..Len(s) : s[i] \in Letters

\* HOTParser._process_auto_bks; raw is parsed['_raw'] as characters.
\* The document and the new self._currency_decimals.
process_auto_bks(doc, parsed, raw, self_decimals) ==
    LET potential_currency == Strip(Slice(raw, 12, 15))
        potential_tax == Str(Strip(Slice(raw, 13, 15)))
    IN  IF Len(raw) > 15 /\ IsAlpha(potential_currency) /\ Len(potential_currency) = 3
            THEN process_amounts(doc, parsed, self_decimals)
        ELSE IF Len(raw) > 16 /\ potential_tax \in {"YQ", "YR", "TR", "DE", "GB", "US", "FR"}
            THEN [doc |-> process_tax(doc, parsed), currency_decimals |-> self_decimals]
        ELSE [doc |-> [doc EXCEPT !.raw_records = Append(@, parsed)],
              currency_decimals |-> self_decimals]

-----------------------------------------------------------------------------
(* The assembly loop of HOTParser.parse_content.  A parser state is the record *)
(* of the HOTFile under construction, the two cursors and the instance fields. *)

\* line.rstrip('\r\n')
RECURSIVE RstripCRLF(_)
RstripCRLF(s) ==
    IF s # <<>> /\ s[Len(s)] \in {"\r", "\n"} THEN RstripCRLF(SubSeq(s, 1, Len(s) - 1))
    ELSE s

\* not line or line.isspace()
IsBlankLine(s) == s = <<>> \/ \A i \in 1..Len(s) : s[i] \in Whitespace

\* f"Line {line_num}: Unknown record type '{record_id}'"
UnknownWarning(n, record_id) ==
    "Line " \o IntStr(n) \o ": Unknown record type '" \o Str(record_id) \o "'"

\* current_agent.documents.append(current_document) when both cursors are set
AppendDocument(S) ==
    IF S.current_document # None /\ S.current_agent # None
    THEN [S EXCEPT !.current_agent =
            Some([@[1] EXCEPT !.documents = Append(@, S.current_document[1])])]
    ELSE S

\* faulty variant: the document appended to the agent stays the pending document
CloseDocument_keep(S) == AppendDocument(S)

\* ... followed by current_document = None
CloseDocument(S) ==
    IF S.current_document # None /\ S.current_agent # None
    THEN [AppendDocument(S) EXCEPT !.current_document = None]
    ELSE S

\* faulty variant: an unknown record also drops the pending document
unknown_record_drop(S, n, record_id) ==
    [S EXCEPT !.warnings = Append(@, UnknownWarning(n, record_id)),
              !.current_document = None]

\* parse_content, parsed is None: one warning, nothing else
unknown_record(S, n, record_id) ==
    [S EXCEPT !.warnings = Append(@, UnknownWarning(n, record_id))]

\* parse_content, prefix3 == 'BOH'
office_header(S, parsed, n) ==
    LET C == CloseDocument(S)
        saved == IF C.current_agent # None
                 THEN [C EXCEPT !.hot_file.agents = Append(@, C.current_agent[1])]
                 ELSE C
    IN  [saved EXCEPT !.current_agent = Some(process_office_header(Agent(n), parsed))]

\* parse_content, prefix3 == 'BKS'
document_record(S, parsed, raw, n) ==
    LET spec_key == Get(parsed, "_spec_key", parsed._record_id)
    IN  IF spec_key = "BKS24" \/ is_document_record(parsed)
            THEN [AppendDocument(S) EXCEPT
                    !.current_document = Some(process_document_id(TicketDocument(n), parsed)),
                    !.started = Append(@, [line |-> n,
                                           agent |-> IF S.current_agent # None
                                                     THEN S.current_agent[1].g_line ELSE 0])]
        ELSE IF spec_key = "BKS30" /\ S.current_document # None
            THEN LET r == process_amounts(S.current_document[1], parsed, S.currency_decimals)
                 IN  [S EXCEPT !.current_document = Some(r.doc),
                               !.currency_decimals = r.currency_decimals]
        ELSE IF spec_key = "BKS31" /\ S.current_document # None
            THEN [S EXCEPT !.current_document = Some(process_tax(@[1], parsed))]
        ELSE IF spec_key = "BKS39" /\ S.current_document # None
            THEN [S EXCEPT !.current_document = Some(process_commission(@[1], parsed))]
        ELSE IF S.current_document # None
            THEN LET r == process_auto_bks(S.current_document[1], parsed, raw,
                                           S.currency_decimals)
                 IN  [S EXCEPT !.current_document = Some(r.doc),
                               !.currency_decimals = r.currency_decimals]
        ELSE S

\* faulty variant: a fare record is applied whatever the document's total amount
fare_record_always(S, parsed) ==
    LET r == process_amounts(S.current_document[1], parsed, S.currency_decimals)
    IN  [S EXCEPT !.current_document = Some(r.doc),
                  !.currency_decimals = r.currency_decimals]

\* parse_content, prefix3 == 'BKF' and current_document
fare_record(S, parsed) ==
    IF S.current_document[1].total_amount = 0
    THEN LET r == process_amounts(S.current_document[1], parsed, S.currency_decimals)
         IN  [S EXCEPT !.current_document = Some(r.doc),
                       !.currency_decimals = r.currency_decimals]
    ELSE S

\* the values an office-totals or file-totals record carries
TotalsOf(parsed) ==
    [document_count |-> Get(parsed, "document_count", 0),
     total_fare |-> Get(parsed, "fare_total", 0),
     total_tax |-> Get(parsed, "tax_total", 0),
     total_amount |-> Get(parsed, "total_amount", 0),
     net_remit |-> Get(parsed, "net_remit_total", 0)]

\* faulty variant: only a record decoded by the BOT94 layout is applied
office_totals_registered(S, parsed) ==
    IF S.current_agent # None /\ parsed["_spec_key"] = "BOT94"
    THEN LET C == IF S.current_document # None THEN CloseDocument(S) ELSE S
         IN  [C EXCEPT !.current_agent =
                Some([process_office_totals(@[1], parsed) EXCEPT
                        !.g_bot = Some(TotalsOf(parsed))])]
    ELSE S

\* parse_content, prefix3 == 'BOT'
office_totals(S, parsed) ==
    IF S.current_agent # None
    THEN LET C == IF S.current_document # None THEN CloseDocument(S) ELSE S
         IN  [C EXCEPT !.current_agent =
                Some([process_office_totals(@[1], parsed) EXCEPT
                        !.g_bot = Some(TotalsOf(parsed))])]
    ELSE S

\* parse_content, prefix3 == 'BFT'
file_totals(S, parsed) ==
    LET C == CloseDocument(S)
        saved == IF C.current_agent # None
                 THEN [C EXCEPT !.hot_file.agents = Append(@, C.current_agent[1]),
                                !.current_agent = None]
                 ELSE C
    IN  [saved EXCEPT
            !.hot_file = process_file_totals(@, parsed),
            !.last_bft = Some([totals |-> TotalsOf(parsed),
                               agent |-> IF S.current_agent # None
                                         THEN S.current_agent[1].g_line ELSE 0,
                               document |-> IF S.current_document # None
                                            THEN S.current_document[1].g_line ELSE 0])]

\* the if / elif chain of parse_content on prefix3
dispatch(S, parsed, raw, prefix3, n) ==
    LET T ==
        IF prefix3 = "BFH" THEN [S EXCEPT !.hot_file = process_file_header(@, parsed)]
        ELSE IF prefix3 = "BCH" THEN [S EXCEPT !.hot_file = process_billing_header(@, parsed)]
        ELSE IF prefix3 = "BOH" THEN office_header(S, parsed, n)
        ELSE IF prefix3 = "BKT" THEN S
        ELSE IF prefix3 = "BKS" THEN document_record(S, parsed, raw, n)
        ELSE IF prefix3 = "BKI" /\ S.current_document # None
            THEN [S EXCEPT !.current_document = Some(process_segment(@[1], parsed))]
        ELSE IF prefix3 = "BAR" /\ S.current_document # None
            THEN [S EXCEPT !.current_document = Some(process_passenger(@[1], parsed))]
        ELSE IF prefix3 = "BKP" /\ S.current_document # None
            THEN [S EXCEPT !.current_document = Some(process_payment(@[1], parsed))]
        ELSE IF prefix3 = "BKF" /\ S.current_document # None THEN fare_record(S, parsed)
        ELSE IF prefix3 = "BOT" THEN office_totals(S, parsed)
        ELSE IF prefix3 = "BCT" THEN S
        ELSE IF prefix3 = "BFT" THEN file_totals(S, parsed)
        ELSE S
    IN  IF prefix3 \in {"BOH", "BOT", "BFT"} /\ S.current_agent # None
        THEN [T EXCEPT !.boundary = n] ELSE T

\* one iteration of the for loop of parse_content on line number n
process_line(S, raw_line, n) ==
    LET stripped == RstripCRLF(raw_line)
    IN  IF IsBlankLine(stripped) THEN S
        ELSE
        LET line == Ljust(stripped, RECORD_LENGTH)
            record_id == Slice(line, 0, 5)
        IN  IF Strip(record_id) = <<>> \/ record_id[1] = " " THEN S
            ELSE
            LET parsed == parse_record(line, record_id, S.currency_decimals)
            IN  IF parsed = None THEN unknown_record(S, n, record_id)
                ELSE dispatch([S EXCEPT !.hot_file.raw_records = Append(@, parsed[1])],
                              parsed[1], line, Prefix3(record_id), n)

\* faulty variant: the agent pending at end of input is not appended
end_of_input_lost(S) == AppendDocument(S)

\* parse_content after the loop: "Add remaining document and agent"
end_of_input(S) ==
    LET A == AppendDocument(S)
    IN  IF A.current_agent # None /\ ~AgentIn(A.current_agent[1], A.hot_file.agents)
        THEN [A EXCEPT !.hot_file.agents = Append(@, A.current_agent[1])]
        ELSE A

\* faulty variant: the pass starts with an empty agent pending
StartState_pending(w, e, d) ==
    [hot_file |-> HOTFile, current_agent |-> Some(Agent(0)), current_document |-> None,
     warnings |-> w, errors |-> e, currency_decimals |-> d, last_bft |-> None,
     started |-> <<>>, boundary |-> 0]

\* the locals of parse_content at its start, on an instance with these fields
StartState(w, e, d) ==
    [hot_file |-> HOTFile, current_agent |-> None, current_document |-> None,
     warnings |-> w, errors |-> e, currency_decimals |-> d, last_bft |-> None,
     started |-> <<>>, boundary |-> 0]

\* HOTParser.__init__ followed by the start of parse_content
NewParser == StartState(<<>>, <<>>, DefaultDecimals)

-----------------------------------------------------------------------------
(* Input lines *)

BlankRecord == [i \in 1..RECORD_LENGTH |-> " "]

\* the line with chars written at the 1-indexed position start
Put(line, start, chars) ==
    [i \in 1..Len(line) |->
        IF start <= i /\ i < start + Len(chars) THEN chars[i - start + 1] ELSE line[i]]

\* BOH03: agent 12345678, ACME TRAVEL
LineBOH ==
    Put(Put(Put(BlankRecord, 1, <<"B", "O", "H", "0", "3">>),
            12, <<"1", "2", "3", "4", "5", "6", "7", "8">>),
        21, <<"A", "C", "M", "E", " ", "T", "R", "A", "V", "E", "L">>)

\* BKS24: document 1234567890123, TKTT
LineBKS24 ==
    Put(Put(Put(BlankRecord, 1, <<"B", "K", "S", "2", "4">>),
            12, <<"1", "2", "3", "4", "5", "6", "7", "8", "9", "0", "1", "2", "3">>),
        26, <<"T", "K", "T", "T">>)

\* BKS30: USD, 2 decimals, fare 000001000{, tax 200{, total 1200{
LineBKS30 ==
    Put(Put(Put(Put(Put(Put(BlankRecord, 1, <<"B", "K", "S", "3", "0">>),
            13, <<"U", "S", "D">>),
            16, <<"2">>),
            19, <<"0", "0", "0", "0", "0", "1", "0", "0", "0", "{">>),
            49, <<"2", "0", "0", "{">>),
            72, <<"1", "2", "0", "0", "{">>)

\* BKS30: JPY, 0 decimals, fare 5{
LineBKS30J ==
    Put(Put(Put(Put(BlankRecord, 1, <<"B", "K", "S", "3", "0">>),
            13, <<"J", "P", "Y">>),
            16, <<"0">>),
            27, <<"5", "{">>)

\* BKS39: net remittance 90{
LineBKS39 ==
    Put(Put(BlankRecord, 1, <<"B", "K", "S", "3", "9">>), 51, <<"9", "0", "{">>)

\* BOT94: 7 documents, fare 70{, tax 7{, net remittance 6} (negative), total 77{
LineBOT94 ==
    Put(Put(Put(Put(Put(Put(BlankRecord, 1, <<"B", "O", "T", "9", "4">>),
            20, <<"7">>),
            32, <<"7", "0", "{">>),
            47, <<"7", "{">>),
            89, <<"6", "}">>),
            102, <<"7", "7", "{">>)

\* BFT99: 9 documents, fare 90{, tax 9{, net remittance 8{, total 99{
LineBFT99 ==
    Put(Put(Put(Put(Put(Put(BlankRecord, 1, <<"B", "F", "T", "9", "9">>),
            20, <<"9">>),
            32, <<"9", "0", "{">>),
            47, <<"9", "{">>),
            89, <<"8", "{">>),
            102, <<"9", "9", "{">>)

\* a line of an unregistered record type
LineXXX == <<"X", "X", "X", "0", "0", "a", "b", "c">>

\* the lines of the assembly and totals scenarios
AssemblyLines == {LineBOH, LineBKS24, LineBKS30, LineBKS39, LineBOT94, LineBFT99, LineXXX}

\* the lines of the instance-reuse scenarios
ReuseLines == {LineBOH, LineBKS24, LineBKS30J, LineBOT94, LineXXX}

-----------------------------------------------------------------------------
(* Actions *)

State ==
    [hot_file |-> hot_file, current_agent |-> current_agent,
     current_document |-> current_document, warnings |-> warnings, errors |-> errors,
     currency_decimals |-> currency_decimals, last_bft |-> last_bft,
     started |-> started, boundary |-> boundary]

Becomes(T) ==
    /\ hot_file' = T.hot_file
    /\ current_agent' = T.current_agent
    /\ current_document' = T.current_document
    /\ warnings' = T.warnings
    /\ errors' = T.errors
    /\ currency_decimals' = T.currency_decimals
    /\ last_bft' = T.last_bft
    /\ started' = T.started
    /\ boundary' = T.boundary

\* parse_content is entered on a newly constructed HOTParser
StartParse ==
    /\ pc = "idle"
    /\ pc' = "loop"
    /\ call' = call + 1
    /\ line_num' = 0
    /\ last_line' = <<>>
    /\ Becomes(StartState(warnings, errors, currency_decimals))
    /\ UNCHANGED <<fresh, input, codec_vars>>

\* parse_content is entered again on the same instance; a newly constructed
\* parser is run beside it on the same lines
ParseAgain ==
    /\ pc = "done"
    /\ call = 1
    /\ pc' = "loop"
    /\ call' = call + 1
    /\ line_num' = 0
    /\ last_line' = <<>>
    /\ Becomes(StartState(warnings, errors, currency_decimals))
    /\ fresh' = Some(NewParser)
    /\ UNCHANGED <<input, codec_vars>>

\* one iteration of the loop, on a line drawn from lines
ReadLine(lines, bound) ==
    /\ pc = "loop"
    /\ line_num < bound
    /\ \E l \in lines :
        /\ line_num' = line_num + 1
        /\ last_line' = l
        /\ Becomes(process_line(State, l, line_num + 1))
        /\ fresh' = IF fresh = None THEN None
                    ELSE Some(process_line(fresh[1], l, line_num + 1))
    /\ UNCHANGED <<pc, call, input, codec_vars>>

\* the loop ends and parse_content returns hot_file
EndOfInput ==
    /\ pc = "loop"
    /\ pc' = "done"
    /\ Becomes(end_of_input(State))
    /\ fresh' = IF fresh = None THEN None ELSE Some(end_of_input(fresh[1]))
    /\ UNCHANGED <<call, line_num, last_line, input, codec_vars>>

-----------------------------------------------------------------------------
(* Specifications *)

\* most lines of each of the two calls of the instance-reuse scenarios
MaxReuseLines == 2

IdleParser ==
    /\ call = 0
    /\ line_num = 0
    /\ last_line = <<>>
    /\ hot_file = HOTFile
    /\ current_agent = None
    /\ current_document = None
    /\ warnings = <<>>
    /\ errors = <<>>
    /\ currency_decimals = DefaultDecimals
    /\ last_bft = None
    /\ started = <<>>
    /\ boundary = 0
    /\ fresh = None
    /\ input = [records |-> <<>>, terminator |-> <<>>]

IdleCodec ==
    /\ codec_in = [value |-> <<>>, decimals |-> DefaultDecimals]
    /\ codec_out = 0

\* one parse_content call on a new HOTParser over the assembly lines
Init ==
    /\ pc = "idle"
    /\ IdleParser
    /\ IdleCodec

Next ==
    \/ StartParse
    \/ ReadLine(AssemblyLines, MaxLines)
    \/ EndOfInput

Spec == Init /\ [][Next]_vars

\* two parse_content calls on the same HOTParser
NextReuse ==
    \/ StartParse
    \/ ReadLine(ReuseLines, MaxReuseLines)
    \/ EndOfInput
    \/ ParseAgain

SpecReuse == Init /\ [][NextReuse]_vars

\* the field codec applied to one raw field value
InitCodec ==
    /\ pc = "codec_input"
    /\ IdleParser
    /\ codec_in \in [value : FieldInputs, decimals : Scales]
    /\ codec_out = 0

NextCodec == DecodeSigned \/ DecodeNumeric

SpecCodec == InitCodec /\ [][NextCodec]_vars

-----------------------------------------------------------------------------
(* Properties *)

RECURSIVE SumField(_, _)
\* the sum of one field over a sequence of objects
SumField(objs, f) == IF objs = <<>> THEN 0 ELSE Head(objs)[f] + SumField(Tail(objs), f)

\* the agents of the HOTFile
Agents == {hot_file.agents[i] : i \in 1..Len(hot_file.agents)}

\* C1: in the returned model every agent to which no office-totals record was
\* applied has totals equal to the sums over its documents, and document_count
\* equal to the number of its documents.
C1_AgentTotalsAreSums ==
    pc = "done" =>
        \A a \in Agents :
            a.g_bot = None =>
                /\ a.total_fare = SumField(a.documents, "fare_amount")
                /\ a.total_tax = SumField(a.documents, "total_tax")
                /\ a.total_amount = SumField(a.documents, "total_amount")
                /\ a.net_remit = SumField(a.documents, "net_remit")
                /\ a.document_count = Len(a.documents)

\* C2: when the input held no file-totals record, the totals of the returned
\* HOTFile are the sums of the same fields over its agents, and total_documents
\* is the sum of the agents' document counts.
C2_FileTotalsAreSums ==
    (pc = "done" /\ last_bft = None) =>
        /\ hot_file.total_fare = SumField(hot_file.agents, "total_fare")
        /\ hot_file.total_tax = SumField(hot_file.agents, "total_tax")
        /\ hot_file.total_amount = SumField(hot_file.agents, "total_amount")
        /\ hot_file.net_remit = SumField(hot_file.agents, "net_remit")
        /\ hot_file.total_documents = SumField(hot_file.agents, "document_count")

\* the five totals of an agent
AgentTotals(a) ==
    [document_count |-> a.document_count, total_fare |-> a.total_fare,
     total_tax |-> a.total_tax, total_amount |-> a.total_amount,
     net_remit |-> a.net_remit]

\* C3: an agent to which an office-totals record was applied carries the values
\* of the last such record, while it is pending and in the returned model,
\* whatever documents it owns and whatever records followed.
C3_OfficeTotalsAuthoritative ==
    \A a \in Agents \cup {current_agent[i] : i \in 1..Len(current_agent)} :
        a.g_bot # None => AgentTotals(a) = a.g_bot[1]

\* C3 witness: a returned agent whose office totals were followed by another
\* document and differ from the sums over its documents.
C3_Witness ==
    /\ pc = "done"
    /\ \E a \in Agents :
        /\ a.g_bot # None
        /\ Len(a.documents) = 2
        /\ a.total_fare # SumField(a.documents, "fare_amount")
        /\ a.document_count # Len(a.documents)

\* the five totals of the HOTFile
FileTotals ==
    [document_count |-> hot_file.total_documents, total_fare |-> hot_file.total_fare,
     total_tax |-> hot_file.total_tax, total_amount |-> hot_file.total_amount,
     net_remit |-> hot_file.net_remit]

\* C4: once a file-totals record was read, the agent that was pending before it
\* is in the agents list, the document that was pending with it is among that
\* agent's documents, and the file totals are the values of the latest
\* file-totals record, whatever the agents' totals and the records after it.
C4_FileTotalsAuthoritative ==
    last_bft # None =>
        /\ FileTotals = last_bft[1].totals
        /\ last_bft[1].agent # 0 =>
            \E a \in Agents :
                /\ a.g_line = last_bft[1].agent
                /\ last_bft[1].document # 0 =>
                    \E j \in 1..Len(a.documents) :
                        a.documents[j].g_line = last_bft[1].document

\* C4 witness: a file-totals record met a pending agent and document, another
\* record followed it, and the file totals differ from the agents' sums.
C4_Witness ==
    /\ pc = "done"
    /\ last_bft # None
    /\ last_bft[1].agent # 0
    /\ last_bft[1].document # 0
    /\ last_line # LineBFT99
    /\ hot_file.total_fare # SumField(hot_file.agents, "total_fare")

\* a line that is not skipped and whose identifier resolves to no layout
Unresolved(raw_line) ==
    LET record_id == Slice(Ljust(raw_line, RECORD_LENGTH), 0, 5)
        spec_key == get_spec_key(record_id)
    IN  /\ ~IsBlankLine(raw_line)
        /\ record_id[1] # " "
        /\ (spec_key = None \/ spec_key[1] \notin DOMAIN RECORD_SPECS)

C8_FreshPerInvocation ==
    (pc = "done" /\ call = 2) =>
        /\ hot_file = fresh[1].hot_file
        /\ warnings = fresh[1].warnings
        /\ errors = fresh[1].errors

\* C9 as stated: 0000012345I decodes to 123.45 and 0000012345R to -123.45 at scale 2.
C9_ExamplesAsStated ==
    (pc = "codec_signed" /\ codec_in.decimals = 2) =>
        /\ codec_in.value = ExampleI => codec_out = 1234500
        /\ codec_in.value = ExampleR => codec_out = 0 - 1234500

\* C9 amended: at scale 2 the field 0000012345I decodes to 1234.59 and the field
\* 0000012345R to -1234.59 (the overpunch character stands for a digit of the number).
C9_Examples ==
    (pc = "codec_signed" /\ codec_in.decimals = 2) =>
        /\ codec_in.value = ExampleI => codec_out = 12345900
        /\ codec_in.value = ExampleR => codec_out = 0 - 12345900

\* C9 witness: the negative example was decoded at scale 2.
C9_Witness ==
    /\ pc = "codec_signed"
    /\ codec_in = [value |-> ExampleR, decimals |-> 2]
    /\ codec_out = 0 - 12345900

PositiveCodes == <<"{", "A", "B", "C", "D", "E", "F", "G", "H", "I">>
NegativeCodes == <<"}", "J", "K", "L", "M", "N", "O", "P", "Q", "R">>
IndexIn(seq, c) == CHOOSE i \in 1..Len(seq) : seq[i] = c
Range(seq) == {seq[i] : i \in 1..Len(seq)}

\* s * N / 10^scale as the claim defines it, in units of 10^-MaxDecimals
SignedValue(value, scale) ==
    LET marks == {i \in 1..Len(value) : value[i] # " "}
    IN  IF marks = {} THEN 0
        ELSE
        LET k == CHOOSE i \in marks : \A j \in marks : j <= i
            c == value[k]
            s == IF c \in Range(NegativeCodes) \/ c = "-" THEN 0 - 1 ELSE 1
            final == IF c \in Range(PositiveCodes) THEN <<IndexIn(PositiveCodes, c) - 1>>
                     ELSE IF c \in Range(NegativeCodes) THEN <<IndexIn(NegativeCodes, c) - 1>>
                     ELSE IF c \in Digits THEN <<DigitVal(c)>>
                     ELSE <<>>
            before == {i \in 1..(k - 1) : value[i] \in Digits}
            high == DigitsToInt(SelectSeq(SubSeq(value, 1, k - 1), LAMBDA x : x \in Digits))
            N == IF final = <<>> THEN high ELSE 10 * high + final[1]
        IN  IF before = {} /\ final = <<>> THEN 0
            ELSE s * N * Pow10(MaxDecimals - scale)

\* C10: every field value decodes to s * N / 10^scale with the sign and the final
\* digit decided by the last non-blank character; a field that is blank or has no
\* digit decodes to zero.
C10_SignedNumeric ==
    pc = "codec_signed" => codec_out = SignedValue(codec_in.value, codec_in.decimals)

\* C10 witness: a negative overpunch after a digit and a character that is no digit.
C10_Witness ==
    /\ pc = "codec_signed"
    /\ codec_in = [value |-> <<"1", "X", "R">>, decimals |-> 1]
    /\ codec_out = 0 - 19000


-----------------------------------------------------------------------------
(* Document assembly *)

\* parse_content has read exactly the lines ls, each of a registered record type
ParsedInput(ls) ==
    /\ line_num = Len(ls)
    /\ Len(hot_file.raw_records) = Len(ls)
    /\ \A i \in 1..Len(ls) : hot_file.raw_records[i]._raw = Str(Ljust(ls[i], RECORD_LENGTH))

\* the three lines of the minimal assembly scenario
MinimalInput == <<LineBOH, LineBKS24, LineBKS30>>

\* the returned model has one agent 12345678 owning one document 1234567890123
\* with this fare amount
MinimalModel(fare) ==
    /\ Len(hot_file.agents) = 1
    /\ hot_file.agents[1].iata_number = "12345678"
    /\ Len(hot_file.agents[1].documents) = 1
    /\ hot_file.agents[1].documents[1].document_number = "1234567890123"
    /\ hot_file.agents[1].documents[1].fare_amount = fare

\* C11 as stated: the office header for agent 12345678, the document
\* identification record for 1234567890123 and an amounts record whose fare field
\* holds 000001000{ give one agent owning one document with fare amount 10.00.
C11_MinimalAssemblyAsStated ==
    (pc = "done" /\ ParsedInput(MinimalInput)) => MinimalModel(10 * Pow10(MaxDecimals))

\* C11: the same three lines give one agent 12345678 owning one document
\* 1234567890123 whose fare amount is 100.00: the ten characters 000001000{
\* are the digits 0000010000 at two decimals.
C11_MinimalAssembly ==
    (pc = "done" /\ ParsedInput(MinimalInput)) => MinimalModel(100 * Pow10(MaxDecimals))

C11_Witness ==
    /\ pc = "done"
    /\ ParsedInput(MinimalInput)
    /\ Len(hot_file.agents) = 1
    /\ Len(hot_file.agents[1].documents) = 1
    /\ hot_file.agents[1].documents[1].currency_decimals = 2


\* the number of office-header (BOH) records among the records read
OfficeHeaders ==
    Cardinality({i \in 1..Len(hot_file.raw_records) :
                    hot_file.raw_records[i]._spec_key = "BOH03"})

\* C12: the returned agents list holds exactly one agent per office-header
\* record, in record order; an agent still pending at end of input is appended
\* exactly once, also when its field values equal those of an agent already in
\* the list.
C12_OneAgentPerOfficeHeader ==
    pc = "done" =>
        /\ Len(hot_file.agents) = OfficeHeaders
        /\ \A i, j \in 1..Len(hot_file.agents) :
                i < j => hot_file.agents[i].g_line < hot_file.agents[j].g_line

\* the places <<i, j>> of the returned model holding the document started by line n
Places(n) ==
    {p \in UNION {{<<i, j>> : j \in 1..Len(hot_file.agents[i].documents)} :
                    i \in 1..Len(hot_file.agents)} :
        hot_file.agents[p[1]].documents[p[2]].g_line = n}

\* C13: every document started while an agent A is pending appears exactly once
\* in the returned model, in A's documents and in no other agent's.
C13_DocumentOwnedByItsAgent ==
    pc = "done" =>
        \A k \in 1..Len(started) :
            started[k].agent # 0 =>
                /\ Cardinality(Places(started[k].line)) = 1
                /\ \A p \in Places(started[k].line) :
                        hot_file.agents[p[1]].g_line = started[k].agent


-----------------------------------------------------------------------------
(* Detail records, blank document numbers and short lines *)

\* BKS24: blank document number, TKTT
LineBKS24Blank ==
    Put(Put(BlankRecord, 1, <<"B", "K", "S", "2", "4">>), 26, <<"T", "K", "T", "T">>)

\* BKS31: tax country US, slot 1 US 5{, slot 2 XF 4{
LineBKS31 ==
    Put(Put(Put(Put(Put(Put(BlankRecord, 1, <<"B", "K", "S", "3", "1">>),
            12, <<"U", "S">>),
            14, <<"U", "S">>),
            26, <<"5", "{">>),
            28, <<"X", "F">>),
            40, <<"4", "{">>)

\* BKS31: tax country GB, slot 1 YQ with amount 0{, slot 3 ZP 3{
LineBKS31Z ==
    Put(Put(Put(Put(Put(Put(BlankRecord, 1, <<"B", "K", "S", "3", "1">>),
            12, <<"G", "B">>),
            14, <<"Y", "Q">>),
            26, <<"0", "{">>),
            42, <<"Z", "P">>),
            54, <<"3", "{">>)

\* lines of three characters, the prefixes of the office-header and file-totals families
ShortBOH == <<"B", "O", "H">>

ShortBFT == <<"B", "F", "T">>

\* the lines of the detail scenarios
DetailLines ==
    {LineBOH, LineBKS24, LineBKS24Blank, LineBKS31, LineBKS31Z, ShortBOH, ShortBFT}

\* one parse_content call on a new HOTParser over the detail lines
NextDetail ==
    \/ StartParse
    \/ ReadLine(DetailLines, MaxLines)
    \/ EndOfInput

SpecDetail == Init /\ [][NextDetail]_vars

\* the documents of the returned model
Documents ==
    UNION {{hot_file.agents[i].documents[j] : j \in 1..Len(hot_file.agents[i].documents)} :
            i \in 1..Len(hot_file.agents)}

\* C14: no document with an empty document_number appears in the returned model;
\* a document started by a record whose document-number field is blank is
\* discarded at finalization.
C14_NoBlankDocumentNumber ==
    pc = "done" => \A d \in Documents : d.document_number # ""


\* the line is a record of the amounts, tax, commission, segment, passenger or
\* payment families
IsDetailLine(raw_line) ==
    LET line == Ljust(RstripCRLF(raw_line), RECORD_LENGTH)
        record_id == Slice(line, 0, 5)
    IN  \/ get_spec_key(record_id) \in {Some("BKS30"), Some("BKS31"), Some("BKS39")}
        \/ Prefix3(record_id) \in {"BKI", "BAR", "BKP", "BKF"}

\* the HOTFile without its list of decoded records
ModelOf(hf) == [hf EXCEPT !.raw_records = <<>>]

\* C15: an amounts, tax, commission, segment, passenger or payment record that
\* arrives while no document is pending leaves every agent and document
\* unchanged and appends exactly one warning.
C15_DetailWithoutDocumentWarns ==
    [][(/\ pc = "loop"
        /\ line_num' = line_num + 1
        /\ IsDetailLine(last_line')
        /\ current_document = None)
       => (/\ ModelOf(hot_file') = ModelOf(hot_file)
           /\ current_agent' = current_agent
           /\ current_document' = current_document
           /\ Len(warnings') = Len(warnings) + 1)]_vars

\* C16: a document started by a document-identification record while no agent
\* is pending is never lost silently: in the returned model it is owned, once,
\* by the agent started by the next office header, or it is absent and a
\* warning was recorded; also when several such documents are started in a row.
C16_OrphanDocumentNotLostSilently ==
    pc = "done" =>
        \A k \in 1..Len(started) :
            started[k].agent = 0 =>
                \/ /\ Cardinality(Places(started[k].line)) = 1
                   /\ \A p \in Places(started[k].line) :
                        /\ hot_file.agents[p[1]].g_line > started[k].line
                        /\ \A i \in 1..Len(hot_file.agents) :
                                hot_file.agents[i].g_line > started[k].line
                                    => hot_file.agents[p[1]].g_line <= hot_file.agents[i].g_line
                \/ /\ Places(started[k].line) = {}
                   /\ warnings # <<>>

\* C17: a line of fewer than 5 characters is skipped as a non-record: it changes
\* neither the pending agent, the pending document nor the model, even when its
\* characters are the prefix of a known family such as BOH or BFT.
C17_ShortLineSkipped ==
    [][(/\ pc = "loop"
        /\ line_num' = line_num + 1
        /\ Len(last_line') < 5)
       => (/\ ModelOf(hot_file') = ModelOf(hot_file)
           /\ current_agent' = current_agent
           /\ current_document' = current_document)]_vars


\* the tax entry written in slot i of a BKS31 line: the country at columns 12-13,
\* the code at the two columns from 14 + 14 * (i - 1), the amount in the twelve
\* columns after it, at this decimal scale
TaxSlot(line, i, decimals) ==
    [country |-> Str(Strip(Slice(line, 11, 13))),
     code |-> Str(Strip(Slice(line, 13 + 14 * (i - 1), 15 + 14 * (i - 1)))),
     amount |-> parse_signed_numeric(Slice(line, 15 + 14 * (i - 1), 27 + 14 * (i - 1)),
                                     decimals)]

\* a BKS31 record is read while a document is pending
TaxRecordApplied ==
    /\ pc = "loop"
    /\ line_num' = line_num + 1
    /\ Len(last_line') = RECORD_LENGTH
    /\ Slice(last_line', 0, 5) = <<"B", "K", "S", "3", "1">>
    /\ current_document # None

\* C19 as stated: a BKS31 record applied to a pending document appends one tax
\* entry per slot 1..4 that carries a tax code, in slot order after the existing
\* entries, each with the record's tax country and the slot's code and amount.
C19_TaxEntriesAsStated ==
    [][TaxRecordApplied =>
        /\ current_document' # None
        /\ current_document'[1].taxes =
                current_document[1].taxes \o
                SelectSeq([i \in 1..4 |-> TaxSlot(last_line', i, currency_decimals)],
                          LAMBDA e : e.code # "")]_vars

\* C19: a BKS31 record applied to a pending document appends one tax entry per
\* slot 1..4 that carries a tax code and a non-zero amount, in slot order after
\* the existing entries, each with the record's tax country and the slot's code
\* and amount; a record with two code/amount pairs appends exactly two entries.
C19_TaxEntries ==
    [][TaxRecordApplied =>
        /\ current_document' # None
        /\ current_document'[1].taxes =
                current_document[1].taxes \o
                SelectSeq([i \in 1..4 |-> TaxSlot(last_line', i, currency_decimals)],
                          LAMBDA e : e.code # "" /\ e.amount # 0)]_vars

\* the record with two pairs was applied after the record with one: three
\* entries, the two of the last record in slot order at the end
C19_Witness ==
    /\ pc = "loop"
    /\ last_line = LineBKS31
    /\ current_document # None
    /\ Len(current_document[1].taxes) = 3
    /\ current_document[1].taxes[1] =
            [country |-> "GB", code |-> "ZP", amount |-> 30 * Pow10(MaxDecimals - 2)]
    /\ current_document[1].taxes[2] =
            [country |-> "US", code |-> "US", amount |-> 50 * Pow10(MaxDecimals - 2)]
    /\ current_document[1].taxes[3] =
            [country |-> "US", code |-> "XF", amount |-> 40 * Pow10(MaxDecimals - 2)]


-----------------------------------------------------------------------------
(* Decoding of short lines and the layout table *)

\* a record of this identifier with a blank body
RecordOf(record_id) == Put(BlankRecord, 1, record_id)

\* one full line per layout of RECORD_SPECS
RecordLines ==
    {LineBOH, LineBKS24, LineBKS30, LineBKS31, LineBKS39, LineBOT94, LineBFT99,
     RecordOf(<<"B", "F", "H", "0", "1">>), RecordOf(<<"B", "C", "H", "0", "2">>),
     RecordOf(<<"B", "K", "T", "0", "6">>), RecordOf(<<"B", "K", "I", "6", "3">>),
     RecordOf(<<"B", "A", "R", "6", "4">>), RecordOf(<<"B", "K", "P", "8", "4">>),
     RecordOf(<<"B", "O", "T", "9", "3">>), RecordOf(<<"B", "C", "T", "9", "5">>)}

\* the lines cut after their first k characters, for every k
TruncatedLines == {SubSeq(l, 1, k) : l \in RecordLines, k \in 0..RECORD_LENGTH}

\* _parse_record applied to one line and its first five characters
DecodeRecord ==
    /\ pc = "record_input"
    /\ pc' = "record_decoded"
    /\ codec_out' = parse_record(codec_in.value, Slice(codec_in.value, 0, 5),
                                 codec_in.decimals)
    /\ UNCHANGED <<codec_in, parser_vars>>

InitRecord ==
    /\ pc = "record_input"
    /\ IdleParser
    /\ codec_in \in [value : TruncatedLines, decimals : Scales]
    /\ codec_out = 0

NextRecord == DecodeRecord

SpecRecord == InitRecord /\ [][NextRecord]_vars

\* the layout that decodes this line: None, or Some(layout)
LayoutOf(line) ==
    LET spec_key == get_spec_key(Slice(line, 0, 5))
    IN  IF spec_key = None \/ spec_key[1] \notin DOMAIN RECORD_SPECS THEN None
        ELSE Some(RECORD_SPECS[spec_key[1]])

\* the value of a field in a line that holds all its columns
FullValue(f, line, decimals) ==
    LET chars == SubSeq(line, f.start, f.start + f.length - 1)
    IN  IF f.data_type = "S" THEN parse_signed_numeric(chars, decimals)
        ELSE IF f.data_type = "N" THEN parse_numeric(chars)
        ELSE Str(Strip(chars))

\* C18: decoding a line shorter than its layout's extent never fails: each field
\* wholly beyond the end of the line decodes to empty text or zero according to
\* its kind, and each field wholly within the line decodes to the same value as
\* in the line padded to 136 characters.
C18_ShortLineDecoding ==
    (pc = "record_decoded" /\ LayoutOf(codec_in.value) # None) =>
        /\ codec_out # None
        /\ \A i \in 1..Len(LayoutOf(codec_in.value)[1]) :
            LET f == LayoutOf(codec_in.value)[1][i]
                line == codec_in.value
            IN  /\ f.name \in DOMAIN codec_out[1]
                /\ f.start > Len(line) =>
                        codec_out[1][f.name] = IF f.data_type \in {"N", "S"} THEN 0 ELSE ""
                /\ f.start + f.length - 1 <= Len(line) =>
                        codec_out[1][f.name] =
                            FullValue(f, Ljust(line, RECORD_LENGTH), codec_in.decimals)

\* the first 19 characters of the office header: the IATA number lies within
\* them, the agent name beyond them
C18_Witness ==
    /\ pc = "record_decoded"
    /\ codec_in.value = SubSeq(LineBOH, 1, 19)
    /\ codec_out # None
    /\ codec_out[1].agent_iata_number = "12345678"
    /\ codec_out[1].agent_name = ""
    /\ codec_out[1].agent_check_digit = 0

\* C20: in every layout of RECORD_SPECS, the table every record is decoded by,
\* the fields start at position 1 or later, no two fields of the same layout
\* overlap, and every field ends at or before position 136.
C20_FieldsWithinRecord ==
    pc = "record_decoded" =>
        \A key \in DOMAIN RECORD_SPECS :
            \A i \in 1..Len(RECORD_SPECS[key]) :
                LET f == RECORD_SPECS[key][i]
                IN  /\ f.start >= 1
                    /\ f.start + f.length - 1 <= RECORD_LENGTH
                    /\ \A j \in 1..Len(RECORD_SPECS[key]) :
                        LET g == RECORD_SPECS[key][j]
                        IN  i # j => \/ f.start + f.length <= g.start
                                     \/ g.start + g.length <= f.start

\* a full line was decoded by a layout whose last field ends at position 136
C20_Witness ==
    /\ pc = "record_decoded"
    /\ Len(codec_in.value) = RECORD_LENGTH
    /\ LayoutOf(codec_in.value) # None
    /\ \E i \in 1..Len(LayoutOf(codec_in.value)[1]) :
        LET f == LayoutOf(codec_in.value)[1][i]
        IN  f.start + f.length - 1 = RECORD_LENGTH
    /\ codec_out # None


-----------------------------------------------------------------------------
(* Header, marker and passenger records *)

\* BFH01: BSP US, file date 010125, file type PROD, airline 220
LineBFH ==
    Put(Put(Put(Put(Put(BlankRecord, 1, <<"B", "F", "H", "0", "1">>),
            12, <<"U", "S">>),
            14, <<"0", "1", "0", "1", "2", "5">>),
            37, <<"P", "R", "O", "D">>),
            41, <<"2", "2", "0">>)

\* BCH02: airline 057, BSP FR, currency EUR
LineBCH ==
    Put(Put(Put(Put(BlankRecord, 1, <<"B", "C", "H", "0", "2">>),
            12, <<"0", "5", "7">>),
            21, <<"F", "R">>),
            23, <<"E", "U", "R">>)

\* BKT06 and BCT95 with the digits 77 at columns 12-13
LineBKT == Put(Put(BlankRecord, 1, <<"B", "K", "T", "0", "6">>), 12, <<"7", "7">>)

LineBCT == Put(Put(BlankRecord, 1, <<"B", "C", "T", "9", "5">>), 12, <<"7", "7">>)

\* BAR66: a form-of-payment detail record
LineBAR66 == Put(Put(BlankRecord, 1, <<"B", "A", "R", "6", "6">>), 12, <<"C", "A">>)

\* the lines of the header scenarios
HeaderLines ==
    {LineBOH, LineBKS24, LineBFH, LineBCH, LineBKT, LineBCT, LineBFT99, LineBAR66}

\* one parse_content call on a new HOTParser over the header lines
NextHeader ==
    \/ StartParse
    \/ ReadLine(HeaderLines, MaxLines)
    \/ EndOfInput

SpecHeader == Init /\ [][NextHeader]_vars

\* the 3-character keys of the prefix map
PrefixFamilies == {k \in DOMAIN RECORD_PREFIX_MAP : Len(k) = 3}

\* C21: every identifier whose first three characters are a key of the prefix
\* map (BFH, BCH, BOH, BKT, BKI, BAR, BKP, BKF, BOT, BCT, BFT) resolves to a
\* layout of the registry: the record is decoded and no warning reports it as
\* unknown.
C21_PrefixFamiliesResolve ==
    [][(/\ pc = "loop"
        /\ line_num' = line_num + 1
        /\ Len(last_line') = RECORD_LENGTH
        /\ Prefix3(Slice(last_line', 0, 5)) \in PrefixFamilies)
       => (/\ warnings' = warnings
           /\ Len(hot_file'.raw_records) = Len(hot_file.raw_records) + 1)]_vars


\* a full line of one of these families is read
FamilyRead(families) ==
    /\ pc = "loop"
    /\ line_num' = line_num + 1
    /\ Len(last_line') = RECORD_LENGTH
    /\ Prefix3(Slice(last_line', 0, 5)) \in families

\* the file totals of a HOTFile
FileTotalsOf(hf) ==
    <<hf.total_documents, hf.total_fare, hf.total_tax, hf.total_amount, hf.net_remit>>

\* C28: file-header (BFH), billing-header (BCH), transaction-header (BKT) and
\* billing-analysis-totals (BCT) records never change the pending agent, the
\* pending document, the agents list or the file totals; BKT and BCT records
\* leave the whole model apart from the raw-record log unchanged.
C28_HeaderFrame ==
    [][/\ FamilyRead({"BFH", "BCH", "BKT", "BCT"}) =>
            /\ current_agent' = current_agent
            /\ current_document' = current_document
            /\ hot_file'.agents = hot_file.agents
            /\ FileTotalsOf(hot_file') = FileTotalsOf(hot_file)
       /\ FamilyRead({"BKT", "BCT"}) => ModelOf(hot_file') = ModelOf(hot_file)]_vars

\* a file header was read after the file totals, with an agent and a document
\* pending: the metadata is set, the totals and the cursors are kept
C28_Witness ==
    /\ pc = "loop"
    /\ last_line = LineBFH
    /\ hot_file.bsp_code = "US"
    /\ hot_file.total_documents = 9
    /\ current_agent # None
    /\ current_document # None


-----------------------------------------------------------------------------
(* BKS subtypes outside the registry and fare records *)

\* BKF00: EUR, 2 decimals, fare 7{, total 9{
LineBKF ==
    Put(Put(Put(Put(Put(BlankRecord, 1, <<"B", "K", "F", "0", "0">>),
            13, <<"E", "U", "R">>),
            16, <<"2">>),
            27, <<"7", "{">>),
            75, <<"9", "{">>)

\* BKS99: blank body
LineBKS99 == Put(BlankRecord, 1, <<"B", "K", "S", "9", "9">>)

\* BKS45: currency code USD at columns 13-15, 2 decimals, fare 4{
LineBKS45 ==
    Put(Put(Put(Put(BlankRecord, 1, <<"B", "K", "S", "4", "5">>),
            13, <<"U", "S", "D">>),
            16, <<"2">>),
            27, <<"4", "{">>)

\* BKS46: tax code YQ at columns 14-15, amount 6{ in slot 1
LineBKS46 ==
    Put(Put(Put(BlankRecord, 1, <<"B", "K", "S", "4", "6">>),
            14, <<"Y", "Q">>),
            26, <<"6", "{">>)

\* the lines of the amounts scenarios
AmountsLines ==
    {LineBOH, LineBKS24, LineBKS30, LineBKF, LineBKS99, LineBKS45, LineBKS46}

\* one parse_content call on a new HOTParser over the amounts lines
NextAmounts ==
    \/ StartParse
    \/ ReadLine(AmountsLines, MaxLines)
    \/ EndOfInput

SpecAmounts == Init /\ [][NextAmounts]_vars

\* a full line of the BKS family is read whose identifier is not in the registry
UnregisteredBKSRead ==
    /\ FamilyRead({"BKS"})
    /\ Str(Slice(last_line', 0, 5)) \notin DOMAIN RECORD_SPECS

\* the line holds a transaction code of a document at columns 26-29 or a
\* document number of 10 or more characters at columns 12-25
LooksLikeDocument(line) ==
    \/ Str(Strip(Slice(line, 25, 29))) \in {"TKTT", "RFND", "EXCH", "CANX", "ADMA", "ACMA"}
    \/ Len(Strip(Slice(line, 11, 25))) >= 10

\* the pending document after the step is the pending document before it
SamePending ==
    \/ current_document = None /\ current_document' = None
    \/ /\ current_document # None
       /\ current_document' # None
       /\ current_document'[1].g_line = current_document[1].g_line

\* C22: a BKS-family record whose subtype is not in the registry starts a new
\* document only if its content matches the document-identification heuristic
\* (a transaction code among TKTT, RFND, EXCH, CANX, ADMA, ACMA, or a document
\* number of 10 or more characters); otherwise the pending document stays the
\* pending document.
C22_UnregisteredBKSStartsDocumentByContent ==
    [][(UnregisteredBKSRead /\ ~LooksLikeDocument(last_line'))
        => (started' = started /\ SamePending)]_vars

\* columns 13-15 of the line hold three letters
HoldsCurrency(line) == Len(Strip(Slice(line, 12, 15))) = 3 /\ IsAlpha(Strip(Slice(line, 12, 15)))

\* columns 14-15 of the line hold one of the known tax codes
HoldsTaxCode(line) ==
    Str(Strip(Slice(line, 13, 15))) \in {"YQ", "YR", "TR", "DE", "GB", "US", "FR"}

\* C23: a BKS-family record whose subtype is not in the registry and whose
\* columns 13-15 hold a 3-letter currency code is applied to the pending
\* document as an amounts record (it sets the document's currency and amounts),
\* and one whose columns hold a known tax code is applied as a tax record.
C23_UnregisteredBKSAppliedByContent ==
    [][(UnregisteredBKSRead /\ current_document # None)
        => /\ HoldsCurrency(last_line') =>
                /\ SamePending
                /\ current_document'[1].currency = Str(Strip(Slice(last_line', 12, 15)))
                /\ current_document'[1].fare_amount =
                        parse_signed_numeric(Slice(last_line', 16, 28), currency_decimals)
           /\ (~HoldsCurrency(last_line') /\ HoldsTaxCode(last_line')) =>
                /\ SamePending
                /\ current_document'[1].taxes =
                        current_document[1].taxes \o
                        SelectSeq([i \in 1..4 |->
                                      TaxSlot(last_line', i, currency_decimals)],
                                  LAMBDA e : e.code # "" /\ e.amount # 0)]_vars

\* the amount in the twelve columns from col, at the scale in force
AmountAt(line, col) == parse_signed_numeric(SubSeq(line, col, col + 11), currency_decimals)

\* the pending document after the step carries the five amounts of the line read
AmountsOverwritten ==
    /\ SamePending
    /\ current_document'[1].fare_amount = AmountAt(last_line', 17)
    /\ current_document'[1].equivalent_fare = AmountAt(last_line', 29)
    /\ current_document'[1].total_tax = AmountAt(last_line', 41)
    /\ current_document'[1].penalty = AmountAt(last_line', 53)
    /\ current_document'[1].total_amount = AmountAt(last_line', 65)

\* a BKS30 record is read
AmountsRead == FamilyRead({"BKS"}) /\ Str(Slice(last_line', 0, 5)) = "BKS30"

\* C29 as stated: every amounts-family record (BKS30 or BKF) applied while a
\* document is pending overwrites that document's fare, equivalent fare, tax,
\* penalty and total with the record's values, whatever values it held before.
C29_AmountsOverwriteAsStated ==
    [][((AmountsRead \/ FamilyRead({"BKF"})) /\ current_document # None)
        => AmountsOverwritten]_vars

\* C29: a BKS30 record read while a document is pending overwrites that
\* document's fare, equivalent fare, tax, penalty and total with the record's
\* values, whatever values it held before; a BKF record does so only when the
\* document's total amount is zero, and otherwise leaves the document unchanged.
C29_AmountsOverwrite ==
    [][/\ (AmountsRead /\ current_document # None) => AmountsOverwritten
       /\ (FamilyRead({"BKF"}) /\ current_document # None) =>
            IF current_document[1].total_amount = 0 THEN AmountsOverwritten
            ELSE current_document' = current_document]_vars

\* a BKS30 record was applied to a document that held the values of a fare record
C29_Witness ==
    /\ pc = "loop"
    /\ last_line = LineBKS30
    /\ current_document # None
    /\ Len(current_document[1].raw_records) = 3
    /\ current_document[1].raw_records[2]._record_id = "BKF00"
    /\ current_document[1].currency = "USD"
    /\ current_document[1].fare_amount = 100 * Pow10(MaxDecimals)
    /\ current_document[1].total_amount = 120 * Pow10(MaxDecimals)


-----------------------------------------------------------------------------
(* Date fields *)

\* the width of a date field in the layouts
DateFieldLen == 6

DateAlphabet == {"0", "1", "5", "9", " ", "X"}

\* a date field is decoded as _parse_record and the record handlers do it:
\* _parse_numeric of the characters, then _parse_date_ddmmyy of the number
DecodeDate ==
    /\ pc = "date_input"
    /\ pc' = "date_decoded"
    /\ codec_out' = parse_date_ddmmyy(parse_numeric(codec_in.value))
    /\ UNCHANGED <<codec_in, parser_vars>>

InitDate ==
    /\ pc = "date_input"
    /\ IdleParser
    /\ codec_in \in [value : [1..DateFieldLen -> DateAlphabet], decimals : {DefaultDecimals}]
    /\ codec_out = 0

NextDate == DecodeDate

SpecDate == InitDate /\ [][NextDate]_vars

AllDigits(s) == \A i \in 1..Len(s) : s[i] \in Digits

AllZeros(s) == \A i \in 1..Len(s) : s[i] = "0"

\* C26: the date decoder returns no date whenever the 6-character date field
\* does not consist of exactly 6 digits or is all zeros; a field with fewer
\* than 6 digits (blanks or letters among them) never yields a date.
C26_NoDateUnlessSixDigits ==
    (pc = "date_decoded" /\ (~AllDigits(codec_in.value) \/ AllZeros(codec_in.value)))
        => codec_out = None

\* day d of month m exists in a year ending in yy
DayExists(d, m, yy) ==
    /\ 1 <= m /\ m <= 12
    /\ 1 <= d
    /\ d <= (IF m = 2 THEN (IF yy % 4 = 0 THEN 29 ELSE 28)
             ELSE IF m \in {4, 6, 9, 11} THEN 30 ELSE 31)

\* the two-digit year of six digits: the last two digits when the first four
\* are a day and a month, the first two otherwise
YearDigits(s) ==
    LET a == DigitsToInt(SubSeq(s, 1, 2))
        b == DigitsToInt(SubSeq(s, 3, 4))
        c == DigitsToInt(SubSeq(s, 5, 6))
    IN  IF DayExists(a, b, c) THEN c ELSE a

\* C27 as stated: for every accepted 6-digit date the two-digit year yy expands
\* with a pivot at 50: yy < 50 gives 2000+yy and yy >= 50 gives 1900+yy, for the
\* day-month-year reading and for the year-month-day fallback.
C27_YearPivotAsStated ==
    (pc = "date_decoded" /\ AllDigits(codec_in.value) /\ codec_out # None) =>
        codec_out[1][1] = IF YearDigits(codec_in.value) < 50
                          THEN 2000 + YearDigits(codec_in.value)
                          ELSE 1900 + YearDigits(codec_in.value)

\* C27: for every accepted 6-digit date the two-digit year yy expands with a
\* pivot at 69: yy < 69 gives 2000+yy and yy >= 69 gives 1900+yy, for the
\* day-month-year reading and for the year-month-day fallback.
C27_YearPivot ==
    (pc = "date_decoded" /\ AllDigits(codec_in.value) /\ codec_out # None) =>
        codec_out[1][1] = IF YearDigits(codec_in.value) < 69
                          THEN 2000 + YearDigits(codec_in.value)
                          ELSE 1900 + YearDigits(codec_in.value)

\* 1 January of year 50 read day first, and 1 May of year 59 read year first
C27_Witness ==
    /\ pc = "date_decoded"
    /\ \/ codec_in.value = <<"0", "1", "0", "1", "5", "0">> /\ codec_out = Some(<<2050, 1, 1>>)
       \/ codec_in.value = <<"5", "9", "0", "5", "0", "1">> /\ codec_out = Some(<<2059, 5, 1>>)


-----------------------------------------------------------------------------
(* The content of parse_content: line terminators and fixed-width windows *)

\* most records of one content
MaxRecords == 3

\* faulty variant: only the two-character terminator is replaced
NormalizeNewlines_crlf(content) ==
    SelectSeq([i \in 1..Len(content) |->
                    IF content[i] = "\r" /\ i < Len(content) /\ content[i + 1] = "\n"
                    THEN "" ELSE content[i]],
              LAMBDA c : c # "")

\* content.replace('\r\n', '\n').replace('\r', '\n')
NormalizeNewlines(content) ==
    SelectSeq([i \in 1..Len(content) |->
                    IF content[i] = "\r" /\ i < Len(content) /\ content[i + 1] = "\n"
                    THEN ""
                    ELSE IF content[i] = "\r" THEN "\n" ELSE content[i]],
              LAMBDA c : c # "")

\* content.strip(): line breaks are whitespace too
StripContent(content) ==
    LET keep == {i \in 1..Len(content) : content[i] \notin Whitespace \cup {"\n", "\r"}}
    IN  IF keep = {} THEN <<>>
        ELSE SubSeq(content, CHOOSE i \in keep : \A j \in keep : i <= j,
                             CHOOSE i \in keep : \A j \in keep : i >= j)

\* content.split('\n')
SplitLines(content) ==
    LET breaks == {i \in 1..Len(content) : content[i] = "\n"}
        count == Cardinality(breaks) + 1
        break(k) == IF k = 0 THEN 0
                    ELSE IF k = count THEN Len(content) + 1
                    ELSE CHOOSE b \in breaks : Cardinality({x \in breaks : x < b}) = k - 1
    IN  [k \in 1..count |-> SubSeq(content, break(k - 1) + 1, break(k) - 1)]

\* [content[i:i+RECORD_LENGTH] for i in range(0, len(content), RECORD_LENGTH)]
Chunks(content) ==
    [k \in 1..((Len(content) + RECORD_LENGTH - 1) \div RECORD_LENGTH) |->
        SubSeq(content, (k - 1) * RECORD_LENGTH + 1, Min(k * RECORD_LENGTH, Len(content)))]

\* the list lines of parse_content
ContentLines(content) ==
    LET normal == NormalizeNewlines(content)
    IN  IF \E i \in 1..Len(normal) : normal[i] = "\n"
        THEN SplitLines(StripContent(normal))
        ELSE Chunks(normal)

RECURSIVE ParseFrom(_, _, _)
\* the for loop of parse_content from line number n on
ParseFrom(S, lines, n) ==
    IF n > Len(lines) THEN S ELSE ParseFrom(process_line(S, lines[n], n), lines, n + 1)

\* parse_content(content) on an instance with these fields
parse_content(content, w, e, d) ==
    end_of_input(ParseFrom(StartState(w, e, d), ContentLines(content), 1))

RECURSIVE Join(_, _)
\* terminator.join(records)
Join(records, terminator) ==
    IF records = <<>> THEN <<>>
    ELSE IF Len(records) = 1 THEN records[1]
    ELSE Join(SubSeq(records, 1, Len(records) - 1), terminator)
            \o terminator \o records[Len(records)]

\* an unregistered record type in a full record
LineXXX136 == Ljust(LineXXX, RECORD_LENGTH)

\* the records a content is made of
ContentRecords == {LineBOH, LineBKS24, LineXXX136, BlankRecord, LineXXX, <<>>}

\* no terminator (fixed-width content), LF, CR LF, bare CR
Terminators == {<<>>, <<"\n">>, <<"\r", "\n">>, <<"\r">>}

\* parse_content is run on the records joined by the terminator, and a second
\* newly constructed parser on the same records joined by LF
ParseContent ==
    /\ pc = "content_input"
    /\ pc' = "content_parsed"
    /\ call' = call + 1
    /\ Becomes(parse_content(Join(input.records, input.terminator),
                             warnings, errors, currency_decimals))
    /\ fresh' = Some(parse_content(Join(input.records, <<"\n">>),
                                   <<>>, <<>>, DefaultDecimals))
    /\ UNCHANGED <<line_num, last_line, input, codec_vars>>

InitContent ==
    /\ pc = "content_input"
    /\ call = 0
    /\ line_num = 0
    /\ last_line = <<>>
    /\ hot_file = HOTFile
    /\ current_agent = None
    /\ current_document = None
    /\ warnings = <<>>
    /\ errors = <<>>
    /\ currency_decimals = DefaultDecimals
    /\ last_bft = None
    /\ started = <<>>
    /\ boundary = 0
    /\ fresh = None
    /\ input \in [records : UNION {[1..n -> ContentRecords] : n \in 0..MaxRecords},
                  terminator : Terminators]
    /\ IdleCodec

NextContent == ParseContent

SpecContent == InitContent /\ [][NextContent]_vars

\* a HOTFile without the history fields of the model
Returned(hf) ==
    [hf EXCEPT !.agents =
        [i \in 1..Len(hf.agents) |->
            [Fields(hf.agents[i]) EXCEPT !.documents =
                [j \in 1..Len(hf.agents[i].documents) |->
                    Fields(hf.agents[i].documents[j])]]]]

\* the run returned the model and left the warnings of the parser beside it
SameAsLF ==
    /\ Returned(hot_file) = Returned(fresh[1].hot_file)
    /\ warnings = fresh[1].warnings

\* C24: input without any line-break character is split into consecutive
\* 136-character windows, and parsing the concatenation of n records of exactly
\* 136 characters returns the same model and the same warnings as parsing the
\* same n records joined by newline characters.
C24_WindowsAsLines ==
    (/\ pc = "content_parsed"
     /\ input.terminator = <<>>
     /\ \A i \in 1..Len(input.records) : Len(input.records[i]) = RECORD_LENGTH)
        => SameAsLF

\* C25: the three line terminators are equivalent: the same sequence of records
\* separated by LF, by CR LF or by bare CR parses to the same model and the
\* same warnings, with the same line numbers.
C25_TerminatorsEquivalent ==
    (pc = "content_parsed" /\ input.terminator # <<>>) => SameAsLF

\* an unregistered record on the third line, after an office header and an
\* empty line, separated by bare CR
C25_Witness ==
    /\ pc = "content_parsed"
    /\ input = [records |-> <<LineBOH, <<>>, LineXXX>>, terminator |-> <<"\r">>]
    /\ Len(hot_file.agents) = 1
    /\ warnings = <<"Line 3: Unknown record type 'XXX00'">>

\* C30: empty input yields an empty model without failure: parse_content("")
\* returns a HOTFile with no agents, all totals zero and no warnings or errors.
C30_EmptyInput ==
    (pc = "content_parsed" /\ Join(input.records, input.terminator) = <<>>) =>
        /\ hot_file = HOTFile
        /\ warnings = <<>>
        /\ errors = <<>>

\* the content of no record was parsed
C30_Witness ==
    /\ pc = "content_parsed"
    /\ input.records = <<>>
    /\ call = 1
    /\ hot_file.agents = <<>>
    /\ hot_file.total_documents = 0


-----------------------------------------------------------------------------
(* Properties: the decimal scale of an amounts record *)

\* the lines of the decimal-scale scenarios: amounts records of a currency
\* with 2 decimals and of one with none
ScaleLines == {LineBOH, LineBKS24, LineBKS30, LineBKS30J}

\* one parse_content call on a new HOTParser over the decimal-scale lines
NextScale ==
    \/ StartParse
    \/ ReadLine(ScaleLines, MaxLines)
    \/ EndOfInput

SpecScale == Init /\ [][NextScale]_vars

\* the currency_decimals field of a BKS30 line (column 16)
DeclaredDecimals(line) == DigitVal(line[16])

\* the amount in the twelve columns from col, at the scale the line declares
DeclaredAmountAt(line, col) ==
    parse_signed_numeric(SubSeq(line, col, col + 11), DeclaredDecimals(line))

\* C31: the signed amounts of a BKS30 record are decoded at the decimal scale
\* declared by the currency_decimals field of that same record, not at the scale
\* left by an earlier record: whatever records precede it, a BKS30 record applied
\* to a pending document leaves the same fare, equivalent fare, tax, penalty and
\* total, the values of its columns at its own declared scale.
C31_AmountsAtDeclaredScale ==
    [][(AmountsRead /\ current_document # None)
        => /\ current_document'[1].fare_amount = DeclaredAmountAt(last_line', 17)
           /\ current_document'[1].equivalent_fare = DeclaredAmountAt(last_line', 29)
           /\ current_document'[1].total_tax = DeclaredAmountAt(last_line', 41)
           /\ current_document'[1].penalty = DeclaredAmountAt(last_line', 53)
           /\ current_document'[1].total_amount = DeclaredAmountAt(last_line', 65)]_vars


-----------------------------------------------------------------------------
(* Properties: what a detail record may modify *)

\* BKI63: coupon 01, IST to LHR
LineBKI63 ==
    Put(Put(Put(Put(BlankRecord, 1, <<"B", "K", "I", "6", "3">>),
            12, <<"0", "1">>),
            14, <<"I", "S", "T">>),
            17, <<"L", "H", "R">>)

\* BAR64: passenger DOE/J, ADT
LineBAR64 ==
    Put(Put(Put(BlankRecord, 1, <<"B", "A", "R", "6", "4">>),
            12, <<"D", "O", "E", "/", "J">>),
            61, <<"A", "D", "T">>)

\* BKP84: form of payment CC, amount 3{
LineBKP84 ==
    Put(Put(Put(BlankRecord, 1, <<"B", "K", "P", "8", "4">>),
            14, <<"C", "C">>),
            28, <<"3", "{">>)

\* the lines of the detail scenarios: the three records that close a document
\* and detail records of every family
FrameLines ==
    {LineBOH, LineBKS24, LineBKS30, LineBKS31, LineBKS39, LineBKI63, LineBAR64,
     LineBKP84, LineBKF, LineBOT94, LineBFT99}

\* one parse_content call on a new HOTParser over the detail lines
NextFrame ==
    \/ StartParse
    \/ ReadLine(FrameLines, MaxLines)
    \/ EndOfInput

SpecFrame == Init /\ [][NextFrame]_vars

\* a line is read
LineRead == pc = "loop" /\ line_num' = line_num + 1

\* the documents appended to an agent, of the agents list or pending
AppendedDocuments(agents, agent) ==
    UNION {Range(agents[i].documents) : i \in 1..Len(agents)} \cup
    (IF agent = None THEN {} ELSE Range(agent[1].documents))

\* the pending document is the one started last, and no office-header,
\* office-totals or file-totals record read with an agent pending came after it
PendingIsOpen ==
    /\ current_document # None
    /\ started # <<>>
    /\ current_document[1].g_line = started[Len(started)].line
    /\ boundary < current_document[1].g_line

\* C32: a detail record (BKS30, BKS31, BKS39, BKI, BAR, BKP, BKF) modifies only
\* the most recently started document, and only if no office-header,
\* office-totals or file-totals record with a pending agent has occurred since
\* that document was started; the documents already appended to an agent are
\* never modified by later records.
C32_DetailModifiesOnlyPendingDocument ==
    [][/\ LineRead =>
            AppendedDocuments(hot_file.agents, current_agent)
                \subseteq AppendedDocuments(hot_file'.agents, current_agent')
       /\ (LineRead /\ IsDetailLine(last_line')) =>
            /\ hot_file'.agents = hot_file.agents
            /\ current_agent' = current_agent
            /\ SamePending
            /\ current_document' # current_document => PendingIsOpen]_vars

\* a commission record was applied to the pending document while an earlier
\* document was already appended to the agent
C32_Witness ==
    /\ pc = "loop"
    /\ last_line = LineBKS39
    /\ current_document # None
    /\ current_document[1].net_remit # 0
    /\ AppendedDocuments(hot_file.agents, current_agent) # {}


-----------------------------------------------------------------------------
(* Properties: the records of the BOT family *)

\* BOT93: 3 documents, fare 30{, tax 3{, net remittance 2{, total 33{
LineBOT93 ==
    Put(Put(Put(Put(Put(Put(BlankRecord, 1, <<"B", "O", "T", "9", "3">>),
            24, <<"3">>),
            36, <<"3", "0", "{">>),
            51, <<"3", "{">>),
            93, <<"2", "{">>),
            106, <<"3", "3", "{">>)

\* BOT00, a subtype without a layout of its own: 1 document, fare 10{
LineBOT00 ==
    Put(Put(Put(BlankRecord, 1, <<"B", "O", "T", "0", "0">>),
            20, <<"1">>),
            32, <<"1", "0", "{">>)

\* the lines of the office-totals scenarios
TotalsLines ==
    {LineBOH, LineBKS24, LineBKS30J, LineBOT93, LineBOT94, LineBOT00, LineXXX}

\* one parse_content call on a new HOTParser over the office-totals lines
NextTotals ==
    \/ StartParse
    \/ ReadLine(TotalsLines, MaxLines)
    \/ EndOfInput

SpecTotals == Init /\ [][NextTotals]_vars

\* the first column of the document count of a BOT line: BOT93 carries a
\* transaction code of four columns before its currency
CountColumn(line) == IF Str(Slice(line, 0, 5)) = "BOT93" THEN 19 ELSE 15

\* the total in the fourteen columns from offset columns after the document
\* count, at the scale in force
TotalAt(line, offset) ==
    parse_signed_numeric(SubSeq(line, CountColumn(line) + offset,
                                CountColumn(line) + offset + 13), currency_decimals)

\* the document count and the totals a BOT line carries
TotalsCarried(line) ==
    [document_count |-> parse_numeric(SubSeq(line, CountColumn(line), CountColumn(line) + 5)),
     total_fare |-> TotalAt(line, 6),
     total_tax |-> TotalAt(line, 20),
     total_amount |-> TotalAt(line, 76),
     net_remit |-> TotalAt(line, 62)]

\* the line read is applied to the pending agent as an office-totals record
AppliedAsOfficeTotals ==
    /\ warnings' = warnings
    /\ errors' = errors
    /\ ModelOf(hot_file') = ModelOf(hot_file)
    /\ current_agent' # None
    /\ current_agent'[1].g_line = current_agent[1].g_line
    /\ current_agent'[1].iata_number = current_agent[1].iata_number
    /\ current_document' = None
    /\ current_agent'[1].documents =
            IF current_document # None
            THEN Append(current_agent[1].documents, current_document[1])
            ELSE current_agent[1].documents
    /\ AgentTotals(current_agent'[1]) = TotalsCarried(last_line')

\* C33 as stated: every record whose identifier begins with BOT, including the
\* transaction-totals record BOT93, is applied as an office-totals record when an
\* agent is pending: it finalizes the pending document into the pending agent
\* and overwrites the agent's document count and totals with the record's
\* values; when no agent is pending it changes nothing and records no warning.
C33_EveryBOTIsOfficeTotalsAsStated ==
    [][FamilyRead({"BOT"}) =>
        IF current_agent # None THEN AppliedAsOfficeTotals
        ELSE UNCHANGED <<hot_file, current_agent, current_document, warnings, errors,
                         currency_decimals>>]_vars

\* C33: every record whose identifier begins with BOT, including the
\* transaction-totals record BOT93, is applied as an office-totals record when an
\* agent is pending: it finalizes the pending document into the pending agent
\* and overwrites the agent's document count and totals with the record's
\* values; when no agent is pending it records no warning and changes nothing
\* but the list of decoded records of the file, to which it is appended.
C33_EveryBOTIsOfficeTotals ==
    [][FamilyRead({"BOT"}) =>
        IF current_agent # None THEN AppliedAsOfficeTotals
        ELSE /\ UNCHANGED <<current_agent, current_document, warnings, errors,
                            currency_decimals>>
             /\ ModelOf(hot_file') = ModelOf(hot_file)
             /\ Len(hot_file'.raw_records) = Len(hot_file.raw_records) + 1
             /\ hot_file'.raw_records[Len(hot_file'.raw_records)]["_raw"] = Str(last_line')
             /\ SubSeq(hot_file'.raw_records, 1, Len(hot_file.raw_records))
                    = hot_file.raw_records]_vars

\* a BOT00 record was read while no agent was pending; later a BOT93 record
\* closed the pending document and set the pending agent's totals
C33_Witness ==
    /\ pc = "loop"
    /\ Len(hot_file.raw_records) = 4
    /\ hot_file.raw_records[1]["_record_id"] = "BOT00"
    /\ last_line = LineBOT93
    /\ current_agent # None
    /\ current_document = None
    /\ Len(current_agent[1].documents) = 1
    /\ current_agent[1].document_count = 3
    /\ current_agent[1].total_amount = 33 * Pow10(MaxDecimals - DefaultDecimals) * 10


-----------------------------------------------------------------------------
(* Properties: the line numbers of the warnings *)

\* the warnings of the unresolved records, each with its position in the input
PositionWarnings(records) ==
    SelectSeq([i \in 1..Len(records) |->
                  IF Unresolved(records[i])
                  THEN UnknownWarning(i, Slice(Ljust(records[i], RECORD_LENGTH), 0, 5))
                  ELSE ""],
              LAMBDA w : w # "")

\* C34: the line number written in an unknown-record warning is the 1-based
\* position of that line in the original input, counting blank lines and lines
\* that precede it, and warnings appear in increasing line-number order: the
\* warnings left by a content of lines are those of its unresolved lines, each
\* with its position, in the order of the lines.
C34_WarningLineNumbers ==
    (pc = "content_parsed" /\ input.terminator # <<>>)
        => warnings = PositionWarnings(input.records)

====
